---- MODULE Spec2Model ----
(***************************************************************************)
(* Model of the Python adapters of memory-service:                         *)
(*   - MemoryServiceResponseResumer (response_resumer.py): the in-process  *)
(*     token journal with one producer task per stream and any number of   *)
(*     readers, run by one asyncio event loop;                             *)
(*   - MemoryServiceCheckpointSaver (checkpoint_saver.py): checkpoints     *)
(*     written to and read from the remote entry log;                      *)
(*   - memory_service_scope (request_context.py): the authorizations bound *)
(*     to a conversation id while a request is in its scope;               *)
(*   - MemoryServiceHistoryMiddleware (history_middleware.py): the order   *)
(*     of history appends and recorder calls around a model call;          *)
(*   - GrpcResponseRecorder (response_recorder.py): the request queue fed  *)
(*     by record() and complete().                                         *)
(* The components share no state; each has specifications of its own in    *)
(* which the other components' variables stay as Init left them.           *)
(***************************************************************************)
EXTENDS Integers, Sequences, FiniteSets, TLC

(***************************************************************************)
(* Bounds of the model.                                                    *)
(***************************************************************************)
MaxReaders == 3     \* readers in all: one live reader per stream, plus replays
MaxChunks == 2      \* chunks one token source yields before it ends

ConvIds == {"c1", "c2"}
\* The text of the k-th chunk of a token source when it is not empty: distinct
\* texts, so that a token read twice, skipped or out of order shows.
ChunkText == <<"a", "b", "c", "d", "e">>
\* What a source yields as its k-th chunk: that text, or the empty chunk, which
\* the producer skips.
Chunks(k) == {"", ChunkText[k]}
\* The id lists check() is called with.
IdLists == {<<>>} \cup {<<c>> : c \in ConvIds} \cup {<<c, d>> : c \in ConvIds, d \in ConvIds}

VARIABLES
    states,     \* the _ResumeState objects ever created, in creation order
    registry,   \* self._states: conversation id -> index into states, 0 for no entry
    producers,  \* per state: the _produce_from_source task and what its source yielded
    readers,    \* the _stream_state generators: state, position in the code, tokens yielded
    op,         \* the last call of check, replay or cancel with its result ("task" after
                \* a step of a producer or reader task)
    lim,        \* the bounds and input sets of the specification at hand; never changes
    conversations,  \* remote service: the ids of the conversations that exist
    entries,    \* remote service: the entries of all conversations, in creation order
    now,        \* remote service: the createdAt of the entry appended last
    puts,       \* the calls of put: arguments, position in the code, last response
    calls,      \* the calls of _conv_id so far: saver instance, thread id, result
    lock,       \* resumer: the holder of self._lock, <<>> when it is free
    authorizations, \* request_context: _conversation_authorizations, id -> stack
    scopes,     \* request_context: the memory_service_scope blocks entered so far
    wraps,      \* history middleware: the calls of wrap_model_call / awrap_model_call
    recorder,   \* GrpcResponseRecorder: its _completed event and its request queue
    callers     \* GrpcResponseRecorder: the threads calling record() and complete()

rvars == <<states, registry, producers, readers, lock>>

\* The variables of request_context, of the history middleware and of the
\* response recorder.
xvars == <<authorizations, scopes, wraps, recorder, callers>>

svars == <<conversations, entries, now, puts, calls>>

vars == <<states, registry, producers, readers, op, lim, conversations, entries, now, puts,
          calls, lock, authorizations, scopes, wraps, recorder, callers>>

(***************************************************************************)
(* _ResumeState                                                            *)
(***************************************************************************)
\* _ResumeState(tokens=[]): the dataclass defaults.
NewResumeState ==
    [tokens |-> <<>>, index |-> 0, cancelled |-> FALSE, complete |-> FALSE, wake |-> FALSE]

\* self._states.get(conversation_id): 0 stands for None.
StateOf(c) == registry[c]

(***************************************************************************)
(* asyncio.Event: set() resolves the future of every task waiting in       *)
(* wait(); a woken task runs later, when the event loop schedules it.      *)
(***************************************************************************)
WakeReaders(rs, s, wasSet) ==
    [i \in DOMAIN rs |->
        IF rs[i].st = s /\ rs[i].pc = "waiting" /\ ~wasSet
        THEN [rs[i] EXCEPT !.pc = "woken"]
        ELSE rs[i]]

(***************************************************************************)
(* _stream_state: one run of the generator from where it was suspended to  *)
(* its next suspension (a yield, or a wait on a clear event) or its end.   *)
(* st is the shared state as the run finds it (the event already cleared   *)
(* if the reader resumes from wait()).  An event that is found set makes   *)
(* wait() return at once; the reader clears it and loops, finds the same   *)
(* state, and then blocks: the run ends waiting with the event clear.      *)
(***************************************************************************)
\* As StreamStateStep, but ending on `complete` before the buffered tokens are read.
StreamStateStepEndsEarly(st) ==
    IF st.cancelled
    THEN [st |-> [st EXCEPT !.complete = TRUE], out |-> "end", token |-> ""]
    ELSE IF st.complete
    THEN [st |-> st, out |-> "end", token |-> ""]
    ELSE IF st.index < Len(st.tokens)
    THEN [st |-> [st EXCEPT !.index = st.index + 1],
          out |-> "token", token |-> st.tokens[st.index + 1]]
    ELSE [st |-> [st EXCEPT !.wake = FALSE], out |-> "wait", token |-> ""]

\* As StreamStateStep, but testing `cancelled` only once the buffer is drained.
StreamStateStepBufferFirst(st) ==
    IF st.index < Len(st.tokens)
    THEN [st |-> [st EXCEPT !.index = st.index + 1],
          out |-> "token", token |-> st.tokens[st.index + 1]]
    ELSE IF st.cancelled
    THEN [st |-> [st EXCEPT !.complete = TRUE], out |-> "end", token |-> ""]
    ELSE IF st.complete
    THEN [st |-> st, out |-> "end", token |-> ""]
    ELSE [st |-> [st EXCEPT !.wake = FALSE], out |-> "wait", token |-> ""]

\* As StreamStateStep, but leaving the cursor where it was after a token.
StreamStateStepKeepsIndex(st) ==
    IF st.cancelled
    THEN [st |-> [st EXCEPT !.complete = TRUE], out |-> "end", token |-> ""]
    ELSE IF st.index < Len(st.tokens)
    THEN [st |-> st, out |-> "token", token |-> st.tokens[st.index + 1]]
    ELSE IF st.complete
    THEN [st |-> st, out |-> "end", token |-> ""]
    ELSE [st |-> [st EXCEPT !.wake = FALSE], out |-> "wait", token |-> ""]

StreamStateStep(st) ==
    IF st.cancelled
    THEN [st |-> [st EXCEPT !.complete = TRUE], out |-> "end", token |-> ""]
    ELSE IF st.index < Len(st.tokens)
    THEN [st |-> [st EXCEPT !.index = st.index + 1],
          out |-> "token", token |-> st.tokens[st.index + 1]]
    ELSE IF st.complete
    THEN [st |-> st, out |-> "end", token |-> ""]
    ELSE [st |-> [st EXCEPT !.wake = FALSE], out |-> "wait", token |-> ""]

\* The reader record after a run with result res.
ReaderAfter(r, res) ==
    [r EXCEPT !.pc = CASE res.out = "token" -> "yielded"
                       [] res.out = "end" -> "done"
                       [] OTHER -> "waiting",
              !.out = IF res.out = "token" THEN Append(r.out, res.token) ELSE r.out]

\* The checkpoint saver's side before any call: no conversation, no entry.
SIdle ==
    /\ conversations = {}
    /\ entries = <<>>
    /\ now = 0
    /\ puts = <<>>
    /\ calls = <<>>

\* threading.Lock(): free.
LockFree == <<>>

\* The resumer's side before any call: self._states = {}.
RIdle ==
    /\ states = <<>>
    /\ registry = [c \in ConvIds |-> 0]
    /\ producers = <<>>
    /\ readers = <<>>
    /\ lock = LockFree

\* request_context before any scope: _conversation_authorizations = {} (an id
\* without a stack is an id with the empty stack).
ScopesIdle ==
    /\ authorizations = [c \in ConvIds |-> <<>>]
    /\ scopes = <<>>

\* The history middleware before any call.
WrapsIdle == wraps = <<>>

\* GrpcResponseRecorder.__init__: an empty queue, _completed and _finished
\* clear, the channel open, the sender thread started and nothing taken from
\* the queue yet; no caller.
RecorderIdle ==
    /\ recorder = [completed |-> FALSE, finished |-> FALSE, closed |-> FALSE,
                   queue |-> <<>>, taken |-> 0]
    /\ callers = <<>>

\* As Released, but keeping the lock while the task waits on the event.
ReleasedHeldAcrossWait(holder, out) == IF out = "wait" THEN holder ELSE LockFree

\* self._lock after a run of a task or a call that took it (`holder`), when
\* the run ends with `out` (a yield, a wait, a return or a raise): every
\* `with self._lock:` block is left before the task suspends or the call ends.
Released(holder, out) == LockFree

RInit ==
    /\ SIdle
    /\ ScopesIdle
    /\ WrapsIdle
    /\ RecorderIdle
    /\ RIdle
    /\ op = [name |-> "task"]
    /\ lim = [streamIds |-> {"c1"}, readers |-> MaxReaders, chunks |-> MaxChunks,
              restart |-> FALSE]

(***************************************************************************)
(* stream_from_source(conversation_id, source), at the first pull of the   *)
(* returned generator: registers a fresh state, creates the producer task  *)
(* and runs _stream_state up to its first suspension.  The conversations   *)
(* that get a stream are those of lim.streamIds, each one once; the other  *)
(* ids are known to check, replay and cancel only as ids without a state.  *)
(***************************************************************************)
\* As StreamFromSource, but keeping the state already registered for the id.
StreamFromSourceKeepsFirst(c) ==
    /\ c \in lim.streamIds
    /\ registry[c] = 0 \/ lim.restart
    /\ Len(states) < Cardinality(lim.streamIds) + (IF lim.restart THEN 1 ELSE 0)
    /\ Len(readers) < lim.readers
    /\ lock = LockFree
    /\ LET s == Len(states) + 1
           res == StreamStateStep(NewResumeState)
           r == ReaderAfter([st |-> s, kind |-> "live", pc |-> "start", out |-> <<>>], res)
       IN /\ states' = Append(states, res.st)
          /\ registry' = IF registry[c] = 0 THEN [registry EXCEPT ![c] = s] ELSE registry
          /\ producers' = Append(producers, [pc |-> "running", produced |-> <<>>, ended |-> "no"])
          /\ readers' = Append(readers, r)
          /\ lock' = Released(<<"reader", Len(readers) + 1>>, res.out)
          /\ op' = [name |-> "task"]
          /\ UNCHANGED <<lim, xvars, svars>>

StreamFromSource(c) ==
    /\ c \in lim.streamIds
    /\ registry[c] = 0 \/ lim.restart
    /\ Len(states) < Cardinality(lim.streamIds) + (IF lim.restart THEN 1 ELSE 0)
    /\ Len(readers) < lim.readers
    /\ lock = LockFree
    /\ LET s == Len(states) + 1
           res == StreamStateStep(NewResumeState)
           r == ReaderAfter([st |-> s, kind |-> "live", pc |-> "start", out |-> <<>>], res)
       IN /\ states' = Append(states, res.st)
          /\ registry' = [registry EXCEPT ![c] = s]
          /\ producers' = Append(producers, [pc |-> "running", produced |-> <<>>, ended |-> "no"])
          /\ readers' = Append(readers, r)
          /\ lock' = Released(<<"reader", Len(readers) + 1>>, res.out)
          /\ op' = [name |-> "task"]
          /\ UNCHANGED <<lim, xvars, svars>>

(***************************************************************************)
(* _produce_from_source, one chunk of the source: under the lock, a        *)
(* cancelled state is marked complete and the task returns (through the    *)
(* finally block, which marks it complete again); otherwise a non-empty    *)
(* chunk is appended.  Either way the event is set.                        *)
(***************************************************************************)
\* As ProduceState, without the test of `cancelled`.
ProduceStateIgnoresCancelled(st, chunk) ==
    [st EXCEPT !.tokens = IF chunk # "" THEN Append(st.tokens, chunk) ELSE st.tokens,
               !.wake = TRUE]

ProduceState(st, chunk) ==
    IF st.cancelled
    THEN [st EXCEPT !.complete = TRUE, !.wake = TRUE]
    ELSE [st EXCEPT !.tokens = IF chunk # "" THEN Append(st.tokens, chunk) ELSE st.tokens,
                    !.wake = TRUE]

ProduceChunk(s, chunk) ==
    /\ s \in DOMAIN producers
    /\ producers[s].pc = "running"
    /\ Len(producers[s].produced) < lim.chunks
    /\ chunk \in Chunks(Len(producers[s].produced) + 1)
    /\ lock = LockFree
    /\ lock' = Released(<<"producer", s>>, IF states[s].cancelled THEN "return" ELSE "await")
    /\ states' = [states EXCEPT ![s] = ProduceState(states[s], chunk)]
    /\ producers' = [producers EXCEPT
                        ![s].produced = Append(producers[s].produced, chunk),
                        ![s].pc = IF states[s].cancelled THEN "done" ELSE "running",
                        ![s].ended = IF states[s].cancelled THEN "cancelled" ELSE "no"]
    /\ readers' = WakeReaders(readers, s, states[s].wake)
    /\ op' = [name |-> "task"]
    /\ UNCHANGED <<registry, lim, xvars, svars>>

(***************************************************************************)
(* _produce_from_source when the source ends (how = "normal") or raises    *)
(* (how = "raised": the except clause swallows it): the finally block      *)
(* marks the state complete and sets the event.                            *)
(***************************************************************************)
\* As FinallyState, but clearing `cancelled` on completion.
FinallyStateClearsCancelled(st) ==
    [st EXCEPT !.complete = TRUE, !.cancelled = FALSE, !.wake = TRUE]

FinallyState(st) == [st EXCEPT !.complete = TRUE, !.wake = TRUE]

\* As ProduceEnd, but without the finally block when the source raised.
ProduceEndNoFinally(s, how) ==
    /\ s \in DOMAIN producers
    /\ producers[s].pc = "running"
    /\ lock = LockFree
    /\ lock' = Released(<<"producer", s>>, "return")
    /\ states' = [states EXCEPT ![s] = IF how = "raised" THEN states[s]
                                       ELSE FinallyState(states[s])]
    /\ producers' = [producers EXCEPT ![s].pc = "done", ![s].ended = how]
    /\ readers' = IF how = "raised" THEN readers
                  ELSE WakeReaders(readers, s, states[s].wake)
    /\ op' = [name |-> "task"]
    /\ UNCHANGED <<registry, lim, xvars, svars>>

ProduceEnd(s, how) ==
    /\ s \in DOMAIN producers
    /\ producers[s].pc = "running"
    /\ lock = LockFree
    /\ lock' = Released(<<"producer", s>>, "return")
    /\ states' = [states EXCEPT ![s] = FinallyState(states[s])]
    /\ producers' = [producers EXCEPT ![s].pc = "done", ![s].ended = how]
    /\ readers' = WakeReaders(readers, s, states[s].wake)
    /\ op' = [name |-> "task"]
    /\ UNCHANGED <<registry, lim, xvars, svars>>

(***************************************************************************)
(* A reader runs: its consumer pulls the next item (pc "start" or          *)
(* "yielded"), or the event loop resumes it after wait() (pc "woken"), in  *)
(* which case it first clears the event.                                   *)
(***************************************************************************)
ReaderRun(i) ==
    /\ i \in DOMAIN readers
    /\ readers[i].pc \in {"start", "yielded", "woken"}
    /\ lock = LockFree
    /\ LET r == readers[i]
           st == IF r.pc = "woken" THEN [states[r.st] EXCEPT !.wake = FALSE] ELSE states[r.st]
           res == StreamStateStep(st)
       IN /\ states' = [states EXCEPT ![r.st] = res.st]
          /\ readers' = [readers EXCEPT ![i] = ReaderAfter(r, res)]
          /\ lock' = Released(<<"reader", i>>, res.out)
          /\ op' = [name |-> "task"]
    /\ UNCHANGED <<registry, producers, lim, xvars, svars>>

(***************************************************************************)
(* replay(conversation_id): KeyError, or a new _stream_state generator on  *)
(* the registered state (not started until its consumer pulls).            *)
(***************************************************************************)
\* As ReplayFails, without the test of `cancelled`.
ReplayFailsIgnoresCancelled(c) == StateOf(c) = 0 \/ states[StateOf(c)].complete

ReplayFails(c) == StateOf(c) = 0 \/ states[StateOf(c)].complete \/ states[StateOf(c)].cancelled

Replay(c) ==
    /\ Len(readers) < lim.readers
    /\ lock = LockFree
    /\ lock' = Released(<<"caller", "replay">>, IF ReplayFails(c) THEN "raise" ELSE "return")
    /\ IF ReplayFails(c)
       THEN /\ op' = [name |-> "replay", conv |-> c, result |-> "KeyError"]
            /\ UNCHANGED readers
       ELSE /\ op' = [name |-> "replay", conv |-> c, result |-> "stream"]
            /\ readers' = Append(readers,
                            [st |-> StateOf(c), kind |-> "replay", pc |-> "start", out |-> <<>>])
    /\ UNCHANGED <<states, registry, producers, lim, xvars, svars>>

(***************************************************************************)
(* check(conversation_ids)                                                 *)
(***************************************************************************)
\* As CheckSkips, without the test of `cancelled`.
CheckSkipsIgnoresCancelled(c) == StateOf(c) = 0 \/ states[StateOf(c)].complete

\* The two `continue` tests of the loop body.
CheckSkips(c) ==
    \/ StateOf(c) = 0
    \/ states[StateOf(c)].complete \/ states[StateOf(c)].cancelled

\* The loop over conversation_ids from position k on, in_progress being acc.
RECURSIVE CheckLoop(_, _, _)
CheckLoop(ids, k, acc) ==
    IF k > Len(ids) THEN acc
    ELSE CheckLoop(ids, k + 1, IF CheckSkips(ids[k]) THEN acc ELSE Append(acc, ids[k]))

CheckResult(ids) == CheckLoop(ids, 1, <<>>)

Check(ids) ==
    /\ lock = LockFree
    /\ lock' = Released(<<"caller", "check">>, "return")
    /\ op' = [name |-> "check", ids |-> ids, result |-> CheckResult(ids)]
    /\ UNCHANGED <<states, registry, producers, readers, lim, xvars, svars>>

(***************************************************************************)
(* cancel(conversation_id)                                                 *)
(***************************************************************************)
\* As CancelReturnsEarly, without the test of `complete`.
CancelReturnsEarlyIgnoresComplete(c) == StateOf(c) = 0

CancelReturnsEarly(c) == StateOf(c) = 0 \/ states[StateOf(c)].complete

Cancel(c) ==
    /\ lock = LockFree
    /\ lock' = Released(<<"caller", "cancel">>, "return")
    /\ IF CancelReturnsEarly(c)
       THEN UNCHANGED <<states, readers>>
       ELSE /\ states' = [states EXCEPT ![StateOf(c)].cancelled = TRUE,
                                        ![StateOf(c)].wake = TRUE]
            /\ readers' = WakeReaders(readers, StateOf(c), states[StateOf(c)].wake)
    /\ op' = [name |-> "cancel", conv |-> c]
    /\ UNCHANGED <<registry, producers, lim, xvars, svars>>

RNext ==
    \/ \E c \in ConvIds : StreamFromSource(c)
    \/ \E s \in DOMAIN states, k \in 1..lim.chunks :
            \E chunk \in Chunks(k) : ProduceChunk(s, chunk)
    \/ \E s \in DOMAIN states, how \in {"normal", "raised"} : ProduceEnd(s, how)
    \/ \E i \in DOMAIN readers : ReaderRun(i)
    \/ \E c \in ConvIds : Replay(c)
    \/ \E ids \in IdLists : Check(ids)
    \/ \E c \in ConvIds : Cancel(c)

ResumerSpec == RInit /\ [][RNext]_vars

\* The event loop runs every task that is ready, and every consumer keeps
\* pulling from its generator: a reader that can run does run.  Nothing is
\* assumed of the token source (it may never yield again) nor of the callers
\* of replay, check and cancel.
ReadersFair == \A i \in 1..MaxReaders : WF_vars(ReaderRun(i))

ResumerFairSpec == RInit /\ [][RNext]_vars /\ ReadersFair

(***************************************************************************)
(* The resumer when stream_from_source is called again for a conversation  *)
(* id that already has a state: one id, two streams.                       *)
(***************************************************************************)
RestartReaders == 3     \* readers in all: the two live readers and one replay
RestartChunks == 1      \* chunks one token source yields before it ends

RestartInit ==
    /\ SIdle
    /\ ScopesIdle
    /\ WrapsIdle
    /\ RecorderIdle
    /\ RIdle
    /\ op = [name |-> "task"]
    /\ lim = [streamIds |-> {"c1"}, readers |-> RestartReaders, chunks |-> RestartChunks,
              restart |-> TRUE]

RestartNext ==
    \/ \E c \in lim.streamIds : StreamFromSource(c)
    \/ \E s \in DOMAIN states, k \in 1..lim.chunks :
            \E chunk \in Chunks(k) : ProduceChunk(s, chunk)
    \/ \E s \in DOMAIN states, how \in {"normal", "raised"} : ProduceEnd(s, how)
    \/ \E i \in DOMAIN readers : ReaderRun(i)
    \/ \E c \in lim.streamIds : Replay(c)
    \/ \E c \in lim.streamIds : Check(<<c>>)
    \/ \E c \in lim.streamIds : Cancel(c)

RestartSpec == RestartInit /\ [][RestartNext]_vars

(***************************************************************************)
(* Properties of the response resumer (checked under ResumerSpec).         *)
(***************************************************************************)
NonEmptyChunk(c) == c # ""
IsPrefix(a, b) == Len(a) <= Len(b) /\ \A k \in 1..Len(a) : a[k] = b[k]
\* The readers of the same state as reader i, other than i.
OtherReaders(i) == {j \in DOMAIN readers : j # i /\ readers[j].st = readers[i].st}
\* The claims' "in progress or not": no state, or a state complete or cancelled.
NoneOrFinished(c) ==
    registry[c] = 0 \/ states[registry[c]].complete \/ states[registry[c]].cancelled

\* C3: two readers of the same stream, the live one and one from replay, that
\* have both ended without a cancel have yielded the same token sequence, which
\* is the whole token sequence of the state.
C3_ReadersObserveSameSequence ==
    \A i \in DOMAIN readers : \A j \in OtherReaders(i) :
        (/\ readers[i].kind = "live" /\ readers[j].kind = "replay"
         /\ readers[i].pc = "done" /\ readers[j].pc = "done"
         /\ ~states[readers[i].st].cancelled)
        => /\ readers[i].out = readers[j].out
           /\ readers[i].out = states[readers[i].st].tokens

\* C4: with a single reader and no cancel, what the live reader has yielded is
\* always a prefix of the non-empty chunks its source produced, in production
\* order, and once the reader has ended it is all of them (the producer having
\* finished): nothing buffered is lost when the producer completes.
C4_SingleReaderDrainsSource ==
    \A i \in DOMAIN readers :
        (readers[i].kind = "live" /\ OtherReaders(i) = {} /\ ~states[readers[i].st].cancelled)
        => /\ IsPrefix(readers[i].out, SelectSeq(producers[readers[i].st].produced, NonEmptyChunk))
           /\ readers[i].pc = "done" =>
                /\ producers[readers[i].st].pc = "done"
                /\ readers[i].out = SelectSeq(producers[readers[i].st].produced, NonEmptyChunk)

\* A lone live reader has ended after yielding two tokens of a source that also
\* produced nothing else or an empty chunk.
C4_Witness ==
    \E i \in DOMAIN readers :
        /\ readers[i].kind = "live" /\ OtherReaders(i) = {}
        /\ ~states[readers[i].st].cancelled
        /\ readers[i].pc = "done"
        /\ readers[i].out = <<"a", "b">>

\* C5: in a step from a state whose `cancelled` flag is set, no reader of that
\* state yields a token, and a reader that runs ends.
C5_NoTokenAfterCancel ==
    [][\A i \in DOMAIN readers :
          states[readers[i].st].cancelled
          => /\ readers'[i].out = readers[i].out
             /\ readers'[i].pc # readers[i].pc => readers'[i].pc = "done"]_vars

\* A reader has ended on a cancelled state while tokens it never yielded are
\* still buffered behind the cursor.
C5_Witness ==
    \E i \in DOMAIN readers :
        /\ states[readers[i].st].cancelled
        /\ readers[i].pc = "done"
        /\ states[readers[i].st].index < Len(states[readers[i].st].tokens)
        /\ Len(readers[i].out) < Len(states[readers[i].st].tokens)

\* C6: what a reader obtained from replay has yielded is a prefix of the token
\* sequence of its state, starting with the first token produced.
C6_ReplayStartsAtZero ==
    \A i \in DOMAIN readers :
        readers[i].kind = "replay"
        => IsPrefix(readers[i].out, states[readers[i].st].tokens)

\* C7: a call of replay(c) raises KeyError exactly when c has no state or its
\* state is complete or cancelled, and a call that raises changes nothing.
C7_ReplayNotFound ==
    [][op'.name = "replay"
       => /\ (op'.result = "KeyError") <=> NoneOrFinished(op'.conv)
          /\ op'.result = "KeyError" => UNCHANGED <<states, registry, producers, readers>>]_vars

\* replay raised KeyError for a conversation whose stream was fully drained.
C7_Witness ==
    /\ op.name = "replay" /\ op.result = "KeyError"
    /\ registry[op.conv] # 0
    /\ \E i \in DOMAIN readers :
        /\ readers[i].st = registry[op.conv] /\ readers[i].pc = "done"
        /\ readers[i].out = states[readers[i].st].tokens /\ readers[i].out # <<>>
        /\ ~states[readers[i].st].cancelled

\* C8: check(ids) returns, in the order given, exactly the ids whose registered
\* state exists and is neither complete nor cancelled.
C8_CheckInProgress ==
    [][op'.name = "check"
       => op'.result = SelectSeq(op'.ids, LAMBDA c : ~NoneOrFinished(c))]_vars

\* check was given an id with a cancelled, not yet complete state and an id
\* with no state, and returned neither.
C8_Witness ==
    /\ op.name = "check" /\ Len(op.ids) = 2 /\ op.result = <<>>
    /\ \E k \in 1..2 : /\ registry[op.ids[k]] # 0
                       /\ states[registry[op.ids[k]]].cancelled
                       /\ ~states[registry[op.ids[k]]].complete
    /\ \E k \in 1..2 : registry[op.ids[k]] = 0

\* C9: cancel(c) never registers or creates a state, and when c has no state or
\* its state is already complete or already cancelled it leaves every state's
\* tokens and flags as they were.
C9_CancelIdempotent ==
    [][op'.name = "cancel"
       => /\ registry' = registry /\ Len(states') = Len(states)
          /\ NoneOrFinished(op'.conv)
             => \A s \in DOMAIN states :
                   /\ states'[s].tokens = states[s].tokens
                   /\ states'[s].cancelled = states[s].cancelled
                   /\ states'[s].complete = states[s].complete]_vars

\* cancel was called on a state that is complete and was never cancelled.
C9_Witness ==
    /\ op.name = "cancel"
    /\ registry[op.conv] # 0
    /\ states[registry[op.conv]].complete
    /\ ~states[registry[op.conv]].cancelled
    /\ states[registry[op.conv]].tokens # <<>>

\* The producer of state s has ended, or cancel has marked the state.
SourceOverOrCancelled(s) == producers[s].pc = "done" \/ states[s].cancelled

\* C21 (checked under ResumerFairSpec): every reader, whatever its position
\* (not started, between two pulls, blocked on the event or woken), eventually
\* ends once the producer of its state has ended (source exhausted, source
\* raised, or cancellation seen) or cancel has been called on its state.
C21_ReadersTerminate ==
    \A i \in 1..MaxReaders :
        (i \in DOMAIN readers /\ SourceOverOrCancelled(readers[i].st))
        ~> (i \in DOMAIN readers /\ readers[i].pc = "done")

\* A reader that was blocked on the event has ended after the source raised.
C21_Witness ==
    \E i \in DOMAIN readers :
        /\ readers[i].pc = "done"
        /\ producers[readers[i].st].ended = "raised"
        /\ ~states[readers[i].st].cancelled
        /\ readers[i].out = <<>>
        /\ \E j \in OtherReaders(i) : readers[j].pc = "done"

\* C22 (checked under ResumerSpec): once the source of a state has raised, the
\* state is complete, and every reader of that state (none cancelled) has
\* yielded a prefix of the state's tokens and, when it has ended, all of them.
C22_ProducerFailureSwallowed ==
    \A i \in DOMAIN readers :
        (producers[readers[i].st].ended = "raised" /\ ~states[readers[i].st].cancelled)
        => /\ states[readers[i].st].complete
           /\ IsPrefix(readers[i].out, states[readers[i].st].tokens)
           /\ readers[i].pc = "done" => readers[i].out = states[readers[i].st].tokens

\* C23 (checked under ResumerSpec): replay called for a conversation whose
\* source has raised after buffering tokens (no cancel) returns a stream.
C23_ReplayAfterProducerFailure ==
    [][(/\ op'.name = "replay"
        /\ registry[op'.conv] # 0
        /\ producers[registry[op'.conv]].ended = "raised"
        /\ states[registry[op'.conv]].tokens # <<>>
        /\ ~states[registry[op'.conv]].cancelled)
       => op'.result = "stream"]_vars

\* C30 (checked under ResumerSpec): a run of a reader (a pull by its consumer,
\* or its resumption after the wait) leaves the tokens, the index and the
\* cancelled and complete flags of every state as they were.
C30_ReaderChangesNoSharedState ==
    [][(\E i \in DOMAIN readers :
            /\ readers[i].pc \in {"start", "yielded", "woken"}
            /\ readers'[i] # readers[i])
       => \A s \in DOMAIN states :
            /\ states'[s].tokens = states[s].tokens
            /\ states'[s].index = states[s].index
            /\ states'[s].cancelled = states[s].cancelled
            /\ states'[s].complete = states[s].complete]_vars

\* C31 (checked under ResumerSpec): in a step from a state whose `cancelled`
\* flag is set, the token sequence of that state stays as it was; and when the
\* producer of such a state receives a chunk in that step, the chunk is not
\* appended, the state is complete afterwards and the producer has ended.
C31_NoAppendAfterCancel ==
    [][\A s \in DOMAIN states :
          states[s].cancelled
          => /\ states'[s].tokens = states[s].tokens
             /\ producers'[s].produced # producers[s].produced
                => /\ states'[s].complete
                   /\ producers'[s].pc = "done"]_vars

\* The producer has ended on a cancelled state after receiving the chunk "b",
\* which is not in the token sequence.
C31_Witness ==
    \E s \in DOMAIN states :
        /\ states[s].cancelled /\ states[s].complete
        /\ producers[s].ended = "cancelled"
        /\ producers[s].produced = <<"a", "b">>
        /\ states[s].tokens = <<"a">>

\* C33 (checked under ResumerSpec): across every step, the token sequence of
\* each state is extended at its end or left as it was, and its cancelled and
\* complete flags stay true once they are.
C33_StateMonotonic ==
    [][\A s \in DOMAIN states :
          /\ IsPrefix(states[s].tokens, states'[s].tokens)
          /\ states[s].cancelled => states'[s].cancelled
          /\ states[s].complete => states'[s].complete]_vars

\* A state that was cancelled after its first token, then marked complete by
\* its producer, with a reader that has ended.
C33_Witness ==
    \E s \in DOMAIN states :
        /\ states[s].cancelled /\ states[s].complete
        /\ states[s].tokens # <<>>
        /\ producers[s].pc = "done"
        /\ \E i \in DOMAIN readers : readers[i].st = s /\ readers[i].pc = "done"

\* The position in the token sequence of state s of the k-th token reader i
\* has yielded (the texts of one source are distinct); 0 when it is not there.
PositionYielded(i, k) ==
    LET toks == states[readers[i].st].tokens
        at == {n \in DOMAIN toks : toks[n] = readers[i].out[k]}
    IN IF at = {} THEN 0 ELSE CHOOSE n \in at : TRUE

\* The positions of the token sequence handed to reader i.
PositionsYielded(i) == {PositionYielded(i, k) : k \in DOMAIN readers[i].out}

\* C34 (checked under ResumerSpec): every reader has yielded tokens of its
\* state at strictly increasing positions, no position has been handed to two
\* readers of the same state, and the positions handed out are exactly those
\* before the shared cursor `index`.
C34_EachPositionHandedOutOnce ==
    /\ \A i \in DOMAIN readers :
          /\ \A k \in DOMAIN readers[i].out :
                /\ PositionYielded(i, k) # 0
                /\ k > 1 => PositionYielded(i, k - 1) < PositionYielded(i, k)
          /\ \A j \in OtherReaders(i) : PositionsYielded(i) \cap PositionsYielded(j) = {}
    /\ \A s \in DOMAIN states :
          UNION {PositionsYielded(i) : i \in {j \in DOMAIN readers : readers[j].st = s}}
          = 1..states[s].index

\* The live reader and a replay reader of one stream have both ended, one
\* having yielded the first token and the other the second.
C34_Witness ==
    \E i \in DOMAIN readers : \E j \in OtherReaders(i) :
        /\ readers[i].kind = "live" /\ readers[j].kind = "replay"
        /\ readers[i].pc = "done" /\ readers[j].pc = "done"
        /\ readers[i].out = <<"b">> /\ readers[j].out = <<"a">>
        /\ ~states[readers[i].st].cancelled

Superseded == {s \in DOMAIN states : \A c \in ConvIds : registry[c] # s}

\* C35 (checked under RestartSpec): a second stream_from_source for an id
\* registers its new state for the id and leaves the first state and its
\* producer as they were; from then on cancel changes only the registered
\* state and the readers of that state, replay attaches to the registered
\* state, check answers for the registered state, and no step cancels a
\* replaced state; the producer of the replaced state keeps appending and its
\* lone live reader yields a prefix of the non-empty chunks produced and, once
\* ended, all of them.
C35_RestartLeavesFirstStreamAlone ==
    [][/\ Len(states') > Len(states)
          => /\ \A c \in ConvIds : registry'[c] # registry[c] => registry'[c] = Len(states')
             /\ \E c \in ConvIds : registry'[c] = Len(states')
             /\ \A s \in DOMAIN states : states'[s] = states[s] /\ producers'[s] = producers[s]
       /\ op'.name = "cancel"
          => /\ \A s \in DOMAIN states \ {registry[op'.conv]} : states'[s] = states[s]
             /\ \A i \in DOMAIN readers :
                   readers[i].st # registry[op'.conv] => readers'[i] = readers[i]
       /\ (op'.name = "replay" /\ op'.result = "stream")
          => readers'[Len(readers')].st = registry[op'.conv]
       /\ op'.name = "replay" => ((op'.result = "KeyError") <=> NoneOrFinished(op'.conv))
       /\ op'.name = "check"
          => op'.result = SelectSeq(op'.ids, LAMBDA c : ~NoneOrFinished(c))
       /\ \A s \in Superseded : states'[s].cancelled = states[s].cancelled
       /\ \A i \in DOMAIN readers' :
             (/\ readers'[i].st \in Superseded' /\ readers'[i].kind = "live"
              /\ \A j \in DOMAIN readers' : j # i => readers'[j].st # readers'[i].st
              /\ ~states'[readers'[i].st].cancelled)
             => /\ IsPrefix(readers'[i].out,
                            SelectSeq(producers'[readers'[i].st].produced, NonEmptyChunk))
                /\ readers'[i].pc = "done"
                   => readers'[i].out
                      = SelectSeq(producers'[readers'[i].st].produced, NonEmptyChunk)]_vars

\* The second stream of "c1" was cancelled after the restart; the first
\* stream's producer appended its token and ended, and its reader has ended
\* with that token.
C35_Witness ==
    /\ Len(states) = 2 /\ registry["c1"] = 2
    /\ states[2].cancelled /\ ~states[1].cancelled
    /\ states[1].tokens = <<"a">> /\ states[2].tokens = <<>>
    /\ producers[1].ended = "normal"
    /\ \E i \in DOMAIN readers :
          /\ readers[i].st = 1 /\ readers[i].kind = "live" /\ readers[i].pc = "done"
          /\ readers[i].out = <<"a">>

(***************************************************************************)
(* MemoryServiceCheckpointSaver.                                           *)
(*                                                                         *)
(* The remote entry service is not part of these sources; it is modelled   *)
(* from its description: conversations exist or not, an entry gets a       *)
(* server-assigned id and createdAt, an append to an absent conversation   *)
(* answers 404, a create that collides with a concurrent one answers 5xx   *)
(* with the duplicate-key message, and a listing returns one page.         *)
(***************************************************************************)
NoId == "none"      \* Python's None where an id is expected
CheckpointIds == {"k1", "k2"}
Namespaces == {"", "sub"}
\* The ids the service assigns to entries, in order of creation.
EntryIdName == <<"e1", "e2", "e3", "e4", "e5", "e6", "e7", "e8">>
\* Entries one page of a listing holds.
PageSize == 2

\* CHECKPOINT_CONTENT_TYPE
CheckpointContentType == "LangGraph/checkpoint"

(***************************************************************************)
(* _conv_id: a thread id that parses as a UUID is used as it is, any other *)
(* one is replaced by its UUID v5 in the namespace _CONV_ID_NAMESPACE.     *)
(* Thread ids of the model: the names "bob" and "amy", the UUID strings    *)
(* "u-1" and "u-bob", the latter being the text of uuid5(namespace, "bob").*)
(***************************************************************************)
IsUuid(t) == t \in {"u-1", "u-bob", "u-amy"}

Uuid5(t) ==
    CASE t = "bob" -> "u-bob"
      [] t = "amy" -> "u-amy"
      [] OTHER -> "u-x"

\* As ConvId, but deriving the id from the thread id only on the first call.
ConvIdUnstable(t) ==
    IF IsUuid(t) THEN t ELSE IF calls = <<>> THEN Uuid5(t) ELSE "u-x"

ConvId(t) == IF IsUuid(t) THEN t ELSE Uuid5(t)

(***************************************************************************)
(* base64.b64encode / b64decode on byte sequences.  A text is a sequence   *)
(* of alphabet positions 0..63, with 64 for the padding character.         *)
(***************************************************************************)
B64Pad == 64

RECURSIVE B64Encode(_)
B64Encode(b) ==
    IF Len(b) = 0 THEN <<>>
    ELSE IF Len(b) = 1
    THEN <<b[1] \div 4, (b[1] % 4) * 16, B64Pad, B64Pad>>
    ELSE IF Len(b) = 2
    THEN <<b[1] \div 4, (b[1] % 4) * 16 + b[2] \div 16, (b[2] % 16) * 4, B64Pad>>
    ELSE <<b[1] \div 4, (b[1] % 4) * 16 + b[2] \div 16,
           (b[2] % 16) * 4 + b[3] \div 64, b[3] % 64>>
         \o B64Encode(SubSeq(b, 4, Len(b)))

RECURSIVE B64Decode(_)
B64Decode(t) ==
    IF Len(t) < 4 THEN <<>>
    ELSE (IF t[3] = B64Pad
          THEN <<t[1] * 4 + t[2] \div 16>>
          ELSE IF t[4] = B64Pad
          THEN <<t[1] * 4 + t[2] \div 16, (t[2] % 16) * 16 + t[3] \div 4>>
          ELSE <<t[1] * 4 + t[2] \div 16, (t[2] % 16) * 16 + t[3] \div 4,
                 (t[3] % 4) * 64 + t[4]>>)
         \o B64Decode(SubSeq(t, 5, Len(t)))

(***************************************************************************)
(* self.serde.dumps_typed / loads_typed, the serializer of the agent       *)
(* framework: a type tag and bytes.  A checkpoint of the model is its id   *)
(* and one channel value v; a metadata is its source and step.             *)
(***************************************************************************)
IdByte(k) == CASE k = "k1" -> 1 [] k = "k2" -> 2 [] OTHER -> 0
ByteId(n) == CASE n = 1 -> "k1" [] n = 2 -> "k2" [] OTHER -> NoId
SourceByte(x) == IF x = "input" THEN 250 ELSE 251
ByteSource(n) == IF n = 250 THEN "input" ELSE "loop"

DumpsTyped(value) ==
    IF "id" \in DOMAIN value
    THEN [type |-> "checkpoint", bytes |-> <<IdByte(value.id), value.v>>]
    ELSE [type |-> "metadata", bytes |-> <<SourceByte(value.source), value.step, 255>>]

LoadsTyped(type, bytes) ==
    IF type = "checkpoint"
    THEN [id |-> ByteId(bytes[1]), v |-> bytes[2]]
    ELSE [source |-> ByteSource(bytes[1]), step |-> bytes[2]]

\* base64.b64decode raises binascii.Error on a text whose length is no multiple
\* of four or that has padding anywhere but at its end.
B64Valid(t) ==
    /\ Len(t) % 4 = 0
    /\ \A k \in DOMAIN t : t[k] = B64Pad => k > Len(t) - 2 /\ t[Len(t)] = B64Pad

\* loads_typed raises on a tag it does not know and on truncated bytes.
LoadsTypedFails(type, bytes) ==
    \/ type \notin {"checkpoint", "metadata"}
    \/ Len(bytes) < 2

\* _encode_typed
EncodeTyped(value) ==
    [type |-> DumpsTyped(value).type, data |-> B64Encode(DumpsTyped(value).bytes)]

\* _decode_typed (of a blob with a string type and a string data)
DecodeTyped(encoded) == LoadsTyped(encoded.type, B64Decode(encoded.data))

\* _decode_typed raises: the type is no string (NoId stands for a missing
\* one), the data is no base64 text, or the serializer rejects the bytes.
DecodeTypedFails(encoded) ==
    \/ encoded.type = NoId
    \/ ~B64Valid(encoded.data)
    \/ LoadsTypedFails(encoded.type, B64Decode(encoded.data))

(***************************************************************************)
(* Reading entries.                                                        *)
(***************************************************************************)
\* _entry_content_item: <<>> for None, <<item>> for the first content item of
\* an entry that has the checkpoint content type and a non-empty content list.
EntryContentItem(e) ==
    IF e.contentType # CheckpointContentType \/ e.content = <<>>
    THEN <<>>
    ELSE <<e.content[1]>>

\* _entry_sort_key: createdAt when the entry has one (the service's timestamps
\* are strings of one format, compared here as numbers), else its id.  No
\* entry of the model lacks createdAt.
EntrySortKey(e) == e.createdAt

\* As ParentConfig, but never building a parent pointer.
ParentConfigNever(thread, ns, parent) == <<>>

\* _checkpoint_tuple_from_entry, lines 171-181: <<>> for parent_config = None,
\* else <<the pointer to the parent in the same thread and namespace>>.
ParentConfig(thread, ns, parent) ==
    IF parent # NoId /\ parent # ""
    THEN <<[thread_id |-> thread, checkpoint_ns |-> ns, checkpoint_id |-> parent]>>
    ELSE <<>>

\* _checkpoint_tuple_from_entry
CheckpointTupleFromEntry(thread, ns, e) ==
    LET item == EntryContentItem(e)[1]
    IN [config |-> [thread_id |-> thread, checkpoint_ns |-> ns,
                    checkpoint_id |-> item.checkpoint_id],
        checkpoint |-> DecodeTyped(item.checkpoint),
        metadata |-> DecodeTyped(item.metadata),
        parent |-> ParentConfig(thread, ns, item.parent_checkpoint_id)]

\* _checkpoint_tuple_from_entry raises: no content item, or a blob that does
\* not decode.
CheckpointTupleFails(e) ==
    \/ EntryContentItem(e) = <<>>
    \/ DecodeTypedFails(EntryContentItem(e)[1].checkpoint)
    \/ DecodeTypedFails(EntryContentItem(e)[1].metadata)

\* list.sort(key, reverse=True): stable, entries of equal key keep their order.
RECURSIVE InsertDesc(_, _)
InsertDesc(sorted, e) ==
    IF sorted = <<>> THEN <<e>>
    ELSE IF EntrySortKey(sorted[Len(sorted)]) >= EntrySortKey(e)
    THEN Append(sorted, e)
    ELSE Append(InsertDesc(SubSeq(sorted, 1, Len(sorted) - 1), e), sorted[Len(sorted)])

RECURSIVE SortDesc(_)
SortDesc(es) ==
    IF es = <<>> THEN <<>>
    ELSE InsertDesc(SortDesc(SubSeq(es, 1, Len(es) - 1)), es[Len(es)])

\* As MaxEntry, but the last entry of maximal key.
RECURSIVE MaxEntryLast(_)
MaxEntryLast(es) ==
    IF Len(es) = 1 THEN es[1]
    ELSE LET m == MaxEntryLast(SubSeq(es, 1, Len(es) - 1))
         IN IF EntrySortKey(es[Len(es)]) >= EntrySortKey(m) THEN es[Len(es)] ELSE m

\* max(checkpoints, key=...): the first entry of maximal key.
RECURSIVE MaxEntry(_)
MaxEntry(es) ==
    IF Len(es) = 1 THEN es[1]
    ELSE LET m == MaxEntry(SubSeq(es, 1, Len(es) - 1))
         IN IF EntrySortKey(es[Len(es)]) > EntrySortKey(m) THEN es[Len(es)] ELSE m

(***************************************************************************)
(* put: the request body, and the code between two requests.               *)
(***************************************************************************)
NoFork == [conv |-> NoId, entry |-> NoId]

\* The payload of put for call p (a record of puts).
Payload(p) ==
    [channel |-> "memory",
     contentType |-> CheckpointContentType,
     content |-> <<[checkpoint_id |-> p.ck.id,
                    checkpoint_ns |-> p.ns,
                    parent_checkpoint_id |-> p.parent,
                    checkpoint |-> EncodeTyped(p.ck),
                    metadata |-> EncodeTyped(p.md)]>>,
     forkedAtConversationId |-> NoId,
     forkedAtEntryId |-> NoId]

\* _payload_with_fork_metadata, fork being what the two getters return.
PayloadWithForkMetadata(payload, fork) ==
    IF ~(fork.conv # NoId /\ fork.entry # NoId)
    THEN payload
    ELSE [payload EXCEPT !.forkedAtConversationId = fork.conv,
                         !.forkedAtEntryId = fork.entry]

\* As IsDuplicateConversationError, but never recognising the conflict.
IsDuplicateConversationErrorNever(resp) == FALSE

\* _is_duplicate_conversation_error: the body "dup" stands for a text holding
\* both "duplicate key value violates unique constraint" and
\* "conversation_groups_pkey".
IsDuplicateConversationError(resp) ==
    IF resp.status < 500 THEN FALSE ELSE resp.body = "dup"

\* As PutEnd, but raising on server errors only.
PutEndServerErrorsOnly(resp) == IF resp.status >= 500 THEN "raised" ELSE "returned"

\* put, lines 354-363: raise on an error status, else return the pointer.
PutEnd(resp) == IF resp.status >= 400 THEN "raised" ELSE "returned"

\* As PutAfterLadder, but appending once more whatever the response.
PutAfterLadderAlwaysRetries(resp) == "append4"

\* put, lines 347-353: one more append after a duplicate-key conflict.
PutAfterLadder(resp) ==
    IF IsDuplicateConversationError(resp) THEN "append4" ELSE PutEnd(resp)

\* As PutContinue, but giving up when create-conversation is refused.
PutContinueChecksCreate(pc, resp) ==
    CASE pc = "append1" -> IF resp.status = 404 THEN "append2" ELSE PutAfterLadder(resp)
      [] pc = "append2" -> IF resp.status = 404 THEN "create" ELSE PutAfterLadder(resp)
      [] pc = "create" -> IF resp.status >= 400 THEN "raised" ELSE "append3"
      [] pc = "append3" -> PutAfterLadder(resp)
      [] OTHER -> PutEnd(resp)

\* Where put continues once the request sent at pc is answered with resp.
PutContinue(pc, resp) ==
    CASE pc = "append1" -> IF resp.status = 404 THEN "append2" ELSE PutAfterLadder(resp)
      [] pc = "append2" -> IF resp.status = 404 THEN "create" ELSE PutAfterLadder(resp)
      [] pc = "create" -> "append3"
      [] pc = "append3" -> PutAfterLadder(resp)
      [] OTHER -> PutEnd(resp)

\* The body put sends at pc.
PutBody(p) ==
    IF p.pc = "append2" THEN PayloadWithForkMetadata(Payload(p), p.fork) ELSE Payload(p)

(***************************************************************************)
(* The remote service.                                                     *)
(***************************************************************************)
RespCreated == [status |-> 201, body |-> "ok"]
RespNotFound == [status |-> 404, body |-> "not found"]
RespDuplicate == [status |-> 500, body |-> "dup"]
RespFailure == [status |-> 500, body |-> "other"]

\* The entry an append of body creates in conversation conv at time t; `by` is
\* the call of put it comes from (the service knows nothing of it).
NewEntry(conv, body, t, by) ==
    [id |-> EntryIdName[Len(entries) + 1],
     conv |-> conv,
     channel |-> body.channel,
     contentType |-> body.contentType,
     content |-> body.content,
     createdAt |-> t,
     by |-> by]

HasForkMarkers(body) == body.forkedAtConversationId # NoId /\ body.forkedAtEntryId # NoId

\* The entries of conversation conv on the given channel, in creation order.
ChannelEntries(conv, channel) ==
    SelectSeq(entries, LAMBDA e : e.conv = conv /\ e.channel = channel)

\* GET /conversations/{conv}/entries?channel=memory: the first page.
ListResponse(conv) ==
    IF conv \notin conversations
    THEN [status |-> 404, data |-> <<>>]
    ELSE LET all == ChannelEntries(conv, "memory")
         IN [status |-> 200,
             data |-> SubSeq(all, 1, IF Len(all) < PageSize THEN Len(all) ELSE PageSize)]

\* GET /conversations/{conv}/entries/{id}
GetResponse(conv, id) ==
    LET found == SelectSeq(entries, LAMBDA e : e.conv = conv /\ e.id = id)
    IN IF conv \notin conversations \/ found = <<>>
       THEN [status |-> 404, data |-> <<>>]
       ELSE [status |-> 200, data |-> found]

(***************************************************************************)
(* put, one request at a time.                                             *)
(***************************************************************************)
InFlight == {i \in DOMAIN puts : puts[i].pc \notin {"returned", "raised"}}

\* put is called: config {thread_id, checkpoint_ns, checkpoint_id = parent},
\* a checkpoint with id k, and the fork markers of the request context.  The
\* checkpoint's channel value and the metadata's step number the call, so that
\* no two calls write the same payload.
PutCall(thread, ns, k, parent, fork) ==
    /\ Len(puts) < lim.puts
    /\ Cardinality(InFlight) < lim.inflight
    /\ LET i == Len(puts) + 1
       IN puts' = Append(puts,
            [thread |-> thread, ns |-> ns, parent |-> parent, fork |-> fork,
             ck |-> [id |-> k, v |-> i],
             md |-> [source |-> IF i = 1 THEN "input" ELSE "loop", step |-> i - 1],
             pc |-> "append1", resp |-> [status |-> 0, body |-> ""],
             faulted |-> FALSE, sent |-> <<>>])
    /\ op' = [name |-> "put"]
    /\ UNCHANGED <<conversations, entries, now, lim, xvars, calls, rvars>>

\* POST .../entries answered at once: 404 for an absent conversation, else the
\* entry is appended, createdAt being the time of the last entry or later.
PutAppend(i) ==
    /\ i \in DOMAIN puts
    /\ puts[i].pc \in {"append1", "append2", "append3", "append4"}
    /\ LET p == puts[i]
           conv == ConvId(p.thread)
           body == PutBody(p)
       IN /\ ~(conv \notin conversations /\ HasForkMarkers(body))
          /\ IF conv \notin conversations
             THEN /\ puts' = [puts EXCEPT ![i].resp = RespNotFound,
                                          ![i].pc = PutContinue(p.pc, RespNotFound),
                                          ![i].sent = Append(p.sent, "append")]
                  /\ UNCHANGED <<entries, now>>
             ELSE \E t \in {now + d : d \in lim.ticks} :
                  /\ entries' = Append(entries, NewEntry(conv, body, t, i))
                  /\ now' = t
                  /\ puts' = [puts EXCEPT ![i].resp = RespCreated,
                                          ![i].pc = PutContinue(p.pc, RespCreated),
                                          ![i].sent = Append(p.sent,
                                                IF HasForkMarkers(body) THEN "fork_append"
                                                ELSE "append")]
    /\ op' = [name |-> "put"]
    /\ UNCHANGED <<conversations, lim, xvars, calls, rvars>>

\* POST .../entries with the fork markers for an absent conversation: the
\* service has found no conversation and is about to create the fork.
PutForkAppend(i) ==
    /\ i \in DOMAIN puts
    /\ puts[i].pc = "append2"
    /\ ConvId(puts[i].thread) \notin conversations
    /\ HasForkMarkers(PutBody(puts[i]))
    /\ puts' = [puts EXCEPT ![i].pc = "fork_insert",
                            ![i].sent = Append(puts[i].sent, "fork_append")]
    /\ op' = [name |-> "put"]
    /\ UNCHANGED <<conversations, entries, now, lim, xvars, calls, rvars>>

\* ... and inserts it: a duplicate-key conflict if the conversation was created
\* meanwhile, else the conversation exists and holds the entry.
PutForkInsert(i) ==
    /\ i \in DOMAIN puts
    /\ puts[i].pc = "fork_insert"
    /\ LET p == puts[i]
           conv == ConvId(p.thread)
       IN IF conv \in conversations
          THEN /\ puts' = [puts EXCEPT ![i].resp = RespDuplicate,
                                       ![i].pc = PutContinue("append2", RespDuplicate)]
               /\ UNCHANGED <<conversations, entries, now>>
          ELSE \E t \in {now + d : d \in lim.ticks} :
               /\ conversations' = conversations \cup {conv}
               /\ entries' = Append(entries,
                                NewEntry(conv, PayloadWithForkMetadata(Payload(p), p.fork), t, i))
               /\ now' = t
               /\ puts' = [puts EXCEPT ![i].resp = RespCreated,
                                       ![i].pc = PutContinue("append2", RespCreated)]
    /\ op' = [name |-> "put"]
    /\ UNCHANGED <<lim, xvars, calls, rvars>>

\* POST /conversations: the service looks the id up; put ignores the response.
PutCreate(i) ==
    /\ i \in DOMAIN puts
    /\ puts[i].pc = "create"
    /\ puts' = [puts EXCEPT
                  ![i].pc = IF ConvId(puts[i].thread) \in conversations
                            THEN PutContinue("create", RespDuplicate)
                            ELSE "create_insert",
                  ![i].sent = Append(puts[i].sent, "create")]
    /\ op' = [name |-> "put"]
    /\ UNCHANGED <<conversations, entries, now, lim, xvars, calls, rvars>>

\* ... and inserts the conversation, or fails on the duplicate key.
PutCreateInsert(i) ==
    /\ i \in DOMAIN puts
    /\ puts[i].pc = "create_insert"
    /\ conversations' = conversations \cup {ConvId(puts[i].thread)}
    /\ puts' = [puts EXCEPT ![i].pc = PutContinue("create", RespCreated)]
    /\ op' = [name |-> "put"]
    /\ UNCHANGED <<entries, now, lim, xvars, calls, rvars>>

\* Any request of put may fail upstream, with nothing written.
PutFault(i) ==
    /\ i \in DOMAIN puts
    /\ puts[i].pc \in {"append1", "append2", "create", "append3", "append4"}
    /\ Cardinality({j \in DOMAIN puts : puts[j].faulted}) < lim.faults
    /\ puts' = [puts EXCEPT
                  ![i].resp = IF puts[i].pc = "create" THEN puts[i].resp ELSE RespFailure,
                  ![i].pc = PutContinue(puts[i].pc, RespFailure),
                  ![i].faulted = TRUE,
                  ![i].sent = Append(puts[i].sent,
                                     IF puts[i].pc = "create" THEN "create"
                                     ELSE IF HasForkMarkers(PutBody(puts[i])) THEN "fork_append"
                                     ELSE "append")]
    /\ op' = [name |-> "put"]
    /\ UNCHANGED <<conversations, entries, now, lim, xvars, calls, rvars>>

(***************************************************************************)
(* get_tuple and list.  A result is [kind |-> "none"], [kind |-> "raise"], *)
(* [kind |-> "tuple", tuple |-> ...] or [kind |-> "list", items |-> ...].  *)
(***************************************************************************)
NoLimit == -1       \* limit=None

\* The item of entry e is a checkpoint of namespace ns.
InNamespace(e, ns) ==
    EntryContentItem(e) # <<>> /\ EntryContentItem(e)[1].checkpoint_ns = ns

\* get_tuple with a checkpoint id, resp being the answer to GET .../entries/{id}.
GetTupleById(thread, ns, resp) ==
    IF resp.status = 404 THEN [kind |-> "none"]
    ELSE IF resp.status >= 400 THEN [kind |-> "raise"]
    ELSE IF ~InNamespace(resp.data[1], ns) THEN [kind |-> "none"]
    ELSE IF CheckpointTupleFails(resp.data[1]) THEN [kind |-> "raise"]
    ELSE [kind |-> "tuple", tuple |-> CheckpointTupleFromEntry(thread, ns, resp.data[1])]

\* get_tuple without a checkpoint id, resp being the answer to the listing.
GetTupleLatest(thread, ns, resp) ==
    IF resp.status = 404 THEN [kind |-> "none"]
    ELSE IF resp.status >= 400 THEN [kind |-> "raise"]
    ELSE LET checkpoints == SelectSeq(resp.data, LAMBDA e : InNamespace(e, ns))
         IN IF checkpoints = <<>> THEN [kind |-> "none"]
            ELSE IF CheckpointTupleFails(MaxEntry(checkpoints)) THEN [kind |-> "raise"]
            ELSE [kind |-> "tuple",
                  tuple |-> CheckpointTupleFromEntry(thread, ns, MaxEntry(checkpoints))]

\* metadata.get(k) == v for every pair <<k, v>> of filter.
MatchesFilter(metadata, filter) ==
    \A kv \in filter : kv[1] \in DOMAIN metadata /\ metadata[kv[1]] = kv[2]

\* The loop of list reaches the test of the filter for entry e.
ListFilters(e, ns, filter, beforeId) ==
    /\ InNamespace(e, ns)
    /\ ~(beforeId # NoId /\ EntryContentItem(e)[1].checkpoint_id = beforeId)
    /\ filter # {}

\* As ListKeeps, but without the test of the before cursor.
ListKeepsIgnoresBefore(e, ns, filter, beforeId) ==
    /\ InNamespace(e, ns)
    /\ filter # {} => MatchesFilter(DecodeTyped(EntryContentItem(e)[1].metadata), filter)

\* The test of the loop of list: the entry is kept.
ListKeeps(e, ns, filter, beforeId) ==
    /\ InNamespace(e, ns)
    /\ ~(beforeId # NoId /\ EntryContentItem(e)[1].checkpoint_id = beforeId)
    /\ filter # {} => MatchesFilter(DecodeTyped(EntryContentItem(e)[1].metadata), filter)

\* list from line 268 on: the entries of the response are filtered, sorted,
\* cut and decoded.
ListDecoded(thread, ns, filter, beforeId, limit, resp) ==
    IF \E k \in DOMAIN resp.data :
                /\ ListFilters(resp.data[k], ns, filter, beforeId)
                /\ DecodeTypedFails(EntryContentItem(resp.data[k])[1].metadata)
    THEN [kind |-> "raise"]
    ELSE LET kept == SelectSeq(resp.data, LAMBDA e : ListKeeps(e, ns, filter, beforeId))
             sorted == SortDesc(kept)
             cut == IF limit = NoLimit \/ limit >= Len(sorted) THEN sorted
                    ELSE SubSeq(sorted, 1, limit)
         IN IF \E k \in DOMAIN cut : CheckpointTupleFails(cut[k])
            THEN [kind |-> "raise"]
            ELSE [kind |-> "list",
                  items |-> [k \in 1..Len(cut) |->
                                CheckpointTupleFromEntry(thread, ns, cut[k])]]

\* As ListResult, but raising on an error status as get_tuple does.
ListResultRaises(thread, ns, filter, beforeId, limit, resp) ==
    IF resp.status >= 400 THEN [kind |-> "raise"]
    ELSE ListDecoded(thread, ns, filter, beforeId, limit, resp)

\* list, resp being the answer to the listing.
ListResult(thread, ns, filter, beforeId, limit, resp) ==
    IF resp.status >= 400 THEN [kind |-> "list", items |-> <<>>]
    ELSE ListDecoded(thread, ns, filter, beforeId, limit, resp)

\* What the service may answer to a read: its answer, or an upstream failure
\* when the specification has any.
ReadResponses(resp) ==
    {resp} \cup {[status |-> 500, data |-> <<>>] : x \in lim.readFaults}

GetTuple(thread, ns, id) ==
    /\ \E resp \in ReadResponses(IF id # NoId THEN GetResponse(ConvId(thread), id)
                                 ELSE ListResponse(ConvId(thread))) :
         op' = [name |-> "get_tuple", thread |-> thread, ns |-> ns, id |-> id,
                status |-> resp.status,
                result |-> IF id # NoId THEN GetTupleById(thread, ns, resp)
                           ELSE GetTupleLatest(thread, ns, resp)]
    /\ UNCHANGED <<svars, lim, xvars, calls, rvars>>

List(thread, ns, filter, beforeId, limit) ==
    /\ \E resp \in ReadResponses(ListResponse(ConvId(thread))) :
         op' = [name |-> "list", thread |-> thread, ns |-> ns, filter |-> filter,
                before |-> beforeId, limit |-> limit, status |-> resp.status,
                result |-> ListResult(thread, ns, filter, beforeId, limit, resp)]
    /\ UNCHANGED <<svars, lim, xvars, calls, rvars>>

(***************************************************************************)
(* put_writes and delete_thread: the arguments are dropped, nothing else.  *)
(***************************************************************************)
PutWrites(thread) ==
    /\ op' = [name |-> "put_writes", thread |-> thread]
    /\ UNCHANGED <<svars, lim, xvars, rvars>>

\* As DeleteThread, but removing the thread's conversation from the log.
DeleteThreadPropagates(thread) ==
    /\ op' = [name |-> "delete_thread", thread |-> thread]
    /\ conversations' = conversations \ {ConvId(thread)}
    /\ entries' = SelectSeq(entries, LAMBDA e : e.conv # ConvId(thread))
    /\ UNCHANGED <<now, puts, calls, lim, xvars, rvars>>

DeleteThread(thread) ==
    /\ op' = [name |-> "delete_thread", thread |-> thread]
    /\ UNCHANGED <<svars, lim, xvars, rvars>>

(***************************************************************************)
(* _conv_id called on one of several saver instances.                      *)
(***************************************************************************)
ConvIdCall(inst, thread) ==
    /\ Len(calls) < lim.calls
    /\ calls' = Append(calls, [inst |-> inst, thread |-> thread, result |-> ConvId(thread)])
    /\ op' = [name |-> "_conv_id"]
    /\ UNCHANGED <<conversations, entries, now, puts, lim, xvars, rvars>>

(***************************************************************************)
(* Another writer of the log: an entry of the checkpoint content type on   *)
(* the memory channel whose checkpoint blob does not decode.               *)
(***************************************************************************)
MalformedBlobs ==
    {[type |-> NoId, data |-> <<>>],                \* no type tag
     [type |-> "checkpoint", data |-> <<0, 16, 1>>]} \* not a base64 text

ForeignBody(ns, k, blob) ==
    [channel |-> "memory",
     contentType |-> CheckpointContentType,
     content |-> <<[checkpoint_id |-> k,
                    checkpoint_ns |-> ns,
                    parent_checkpoint_id |-> NoId,
                    checkpoint |-> blob,
                    metadata |-> EncodeTyped([source |-> "loop", step |-> 0])]>>,
     forkedAtConversationId |-> NoId,
     forkedAtEntryId |-> NoId]

\* The entries that no call of put has appended.
ForeignEntries == {k \in DOMAIN entries : entries[k].by = 0}

ForeignAppend(thread, ns, k, blob) ==
    /\ ConvId(thread) \in conversations
    /\ InFlight = {}
    /\ Cardinality(ForeignEntries) < lim.foreign
    /\ \E t \in {now + d : d \in lim.ticks} :
         /\ entries' = Append(entries, NewEntry(ConvId(thread), ForeignBody(ns, k, blob), t, 0))
         /\ now' = t
    /\ op' = [name |-> "put"]
    /\ UNCHANGED <<conversations, puts, calls, lim, xvars, rvars>>

(***************************************************************************)
(* Specifications of the checkpoint saver.                                 *)
(***************************************************************************)
MaxPuts == 3        \* calls of put, one at a time (SaverSpec)
RacePuts == 2       \* calls of put that may run concurrently (RaceSpec)
MaxFaults == 1      \* calls of put that meet an upstream failure (RaceSpec)

SomeFork == [conv |-> "u-1", entry |-> "e1"]

\* The ids get_tuple is called with: none, a checkpoint id, the id of an entry.
GetIds == {NoId} \cup CheckpointIds \cup {e.id : e \in {entries[k] : k \in DOMAIN entries}}

\* Calls in a row, no fork markers, a service that answers: puts into one
\* thread and two namespaces, each followed by any reads.
SInit ==
    /\ RIdle
    /\ SIdle
    /\ ScopesIdle
    /\ WrapsIdle
    /\ RecorderIdle
    /\ op = [name |-> "put"]
    /\ lim = [puts |-> MaxPuts, inflight |-> 1, faults |-> 0,
              threads |-> {"bob"}, namespaces |-> Namespaces, parents |-> {NoId},
              forks |-> {NoFork}, ticks |-> {0, 1}, readFaults |-> {},
              filters |-> {{}}, befores |-> {NoId}, limits |-> {NoLimit}]

SNext ==
    \/ \E t \in lim.threads, ns \in lim.namespaces, k \in CheckpointIds,
          parent \in lim.parents, fork \in lim.forks : PutCall(t, ns, k, parent, fork)
    \/ \E i \in DOMAIN puts : PutAppend(i)
    \/ \E i \in DOMAIN puts : PutCreate(i)
    \/ \E i \in DOMAIN puts : PutCreateInsert(i)
    \/ \E t \in lim.threads, ns \in lim.namespaces, id \in GetIds : GetTuple(t, ns, id)
    \/ \E t \in lim.threads, ns \in lim.namespaces, f \in lim.filters,
          b \in lim.befores, l \in lim.limits : List(t, ns, f, b, l)

SaverSpec == SInit /\ [][SNext]_vars

\* Concurrent calls of put for one thread whose conversation does not exist
\* yet, with or without fork markers, and an upstream failure.
RaceInit ==
    /\ RIdle
    /\ SIdle
    /\ ScopesIdle
    /\ WrapsIdle
    /\ RecorderIdle
    /\ op = [name |-> "put"]
    /\ lim = [puts |-> RacePuts, inflight |-> RacePuts, faults |-> MaxFaults,
              threads |-> {"bob"}, namespaces |-> {""}, parents |-> {NoId},
              forks |-> {NoFork, SomeFork}, ticks |-> {0, 1}, readFaults |-> {},
              filters |-> {{}}, befores |-> {NoId}, limits |-> {NoLimit}]

RaceNext ==
    \/ \E t \in lim.threads, ns \in lim.namespaces, k \in CheckpointIds,
          parent \in lim.parents, fork \in lim.forks : PutCall(t, ns, k, parent, fork)
    \/ \E i \in DOMAIN puts : PutAppend(i)
    \/ \E i \in DOMAIN puts : PutForkAppend(i)
    \/ \E i \in DOMAIN puts : PutForkInsert(i)
    \/ \E i \in DOMAIN puts : PutCreate(i)
    \/ \E i \in DOMAIN puts : PutCreateInsert(i)
    \/ \E i \in DOMAIN puts : PutFault(i)

RaceSpec == RaceInit /\ [][RaceNext]_vars

LogPuts == 2        \* calls of put, one at a time (LogSpec)
MaxForeign == 1     \* entries of another writer (LogSpec)

\* Calls in a row on a log that another writer shares: puts into one thread and
\* two namespaces, reads with a filter, a before cursor and a limit, answered by
\* the service or failing upstream, and the two operations that do nothing.
LogInit ==
    /\ RIdle
    /\ SIdle
    /\ ScopesIdle
    /\ WrapsIdle
    /\ RecorderIdle
    /\ op = [name |-> "put"]
    /\ lim = [puts |-> LogPuts, inflight |-> 1, faults |-> 0, foreign |-> MaxForeign,
              foreignIds |-> {"k2"},
              threads |-> {"bob"}, namespaces |-> Namespaces, parents |-> {NoId},
              forks |-> {NoFork}, ticks |-> {1}, readFaults |-> {500},
              filters |-> {{}, {<<"source", "loop">>}},
              befores |-> {NoId} \cup CheckpointIds, limits |-> {NoLimit}]

LogNext ==
    \/ \E t \in lim.threads, ns \in lim.namespaces, k \in CheckpointIds,
          parent \in lim.parents, fork \in lim.forks : PutCall(t, ns, k, parent, fork)
    \/ \E i \in DOMAIN puts : PutAppend(i)
    \/ \E i \in DOMAIN puts : PutCreate(i)
    \/ \E i \in DOMAIN puts : PutCreateInsert(i)
    \/ \E t \in lim.threads, ns \in lim.namespaces, k \in lim.foreignIds,
          blob \in MalformedBlobs : ForeignAppend(t, ns, k, blob)
    \/ \E t \in lim.threads, ns \in lim.namespaces, id \in GetIds :
          InFlight = {} /\ GetTuple(t, ns, id)
    \/ \E t \in lim.threads, ns \in lim.namespaces, f \in lim.filters,
          b \in lim.befores, l \in lim.limits : InFlight = {} /\ List(t, ns, f, b, l)
    \/ \E t \in lim.threads : InFlight = {} /\ PutWrites(t)
    \/ \E t \in lim.threads : InFlight = {} /\ DeleteThread(t)

LogSpec == LogInit /\ [][LogNext]_vars

\* As LogSpec, with entries that may share their createdAt and reads without
\* filter, cursor and upstream failure.
AgreeInit ==
    /\ RIdle
    /\ SIdle
    /\ ScopesIdle
    /\ WrapsIdle
    /\ RecorderIdle
    /\ op = [name |-> "put"]
    /\ lim = [puts |-> LogPuts, inflight |-> 1, faults |-> 0, foreign |-> MaxForeign,
              foreignIds |-> {"k2"},
              threads |-> {"bob"}, namespaces |-> {""}, parents |-> {NoId},
              forks |-> {NoFork}, ticks |-> {0, 1}, readFaults |-> {},
              filters |-> {{}}, befores |-> {NoId}, limits |-> {NoLimit}]

AgreeSpec == AgreeInit /\ [][LogNext]_vars

\* The calls of put for thread and namespace ns that have returned, in call order.
ReturnedPuts(thread, ns) ==
    SelectSeq(puts, LAMBDA p : p.thread = thread /\ p.ns = ns /\ p.pc = "returned")

ChainPuts == 3      \* calls of put, one at a time (ChainSpec)

\* The checkpoint id of the pointer the last call of put for thread and ns has
\* returned; NoId when there is none.
ChainParent(thread, ns) ==
    IF ReturnedPuts(thread, ns) = <<>> THEN NoId
    ELSE ReturnedPuts(thread, ns)[Len(ReturnedPuts(thread, ns))].ck.id

\* A chain: each call of put gets as config the pointer the previous call for
\* the same thread and namespace returned, the first one a config without a
\* checkpoint id; reads between the calls.
ChainInit ==
    /\ RIdle
    /\ SIdle
    /\ ScopesIdle
    /\ WrapsIdle
    /\ RecorderIdle
    /\ op = [name |-> "put"]
    /\ lim = [puts |-> ChainPuts, inflight |-> 1, faults |-> 0,
              threads |-> {"bob"}, namespaces |-> Namespaces, parents |-> {NoId},
              forks |-> {NoFork}, ticks |-> {1}, readFaults |-> {},
              filters |-> {{}}, befores |-> {NoId}, limits |-> {NoLimit}]

ChainNext ==
    \/ \E t \in lim.threads, ns \in lim.namespaces, k \in CheckpointIds, fork \in lim.forks :
          PutCall(t, ns, k, ChainParent(t, ns), fork)
    \/ \E i \in DOMAIN puts : PutAppend(i)
    \/ \E i \in DOMAIN puts : PutCreate(i)
    \/ \E i \in DOMAIN puts : PutCreateInsert(i)
    \/ \E t \in lim.threads, ns \in lim.namespaces, id \in GetIds :
          InFlight = {} /\ GetTuple(t, ns, id)
    \/ \E t \in lim.threads, ns \in lim.namespaces, f \in lim.filters,
          b \in lim.befores, l \in lim.limits : InFlight = {} /\ List(t, ns, f, b, l)

ChainSpec == ChainInit /\ [][ChainNext]_vars

(***************************************************************************)
(* Two thread ids, a name and the UUID string that _conv_id derives from   *)
(* that name: puts and reads under either.                                 *)
(***************************************************************************)
IsoPuts == 2        \* calls of put, one at a time (IsoSpec)
IsoThreads == {"bob", "u-bob"}

IsoInit ==
    /\ RIdle
    /\ SIdle
    /\ ScopesIdle
    /\ WrapsIdle
    /\ RecorderIdle
    /\ op = [name |-> "put"]
    /\ lim = [puts |-> IsoPuts, inflight |-> 1, faults |-> 0,
              threads |-> IsoThreads, namespaces |-> {""}, parents |-> {NoId},
              forks |-> {NoFork}, ticks |-> {1}, readFaults |-> {},
              filters |-> {{}}, befores |-> {NoId}, limits |-> {NoLimit}]

IsoNext ==
    \/ \E t \in lim.threads, ns \in lim.namespaces, k \in CheckpointIds,
          parent \in lim.parents, fork \in lim.forks : PutCall(t, ns, k, parent, fork)
    \/ \E i \in DOMAIN puts : PutAppend(i)
    \/ \E i \in DOMAIN puts : PutCreate(i)
    \/ \E i \in DOMAIN puts : PutCreateInsert(i)
    \/ \E t \in lim.threads, ns \in lim.namespaces, id \in GetIds :
          InFlight = {} /\ GetTuple(t, ns, id)
    \/ \E t \in lim.threads, ns \in lim.namespaces, f \in lim.filters,
          b \in lim.befores, l \in lim.limits : InFlight = {} /\ List(t, ns, f, b, l)

IsoSpec == IsoInit /\ [][IsoNext]_vars

MaxCalls == 3       \* calls of _conv_id (ConvSpec)
Savers == {1, 2}    \* saver instances, of one process or of several
ConvThreads == {"bob", "amy", "u-1"}

\* _conv_id called on any instance with any thread id, before, between and after
\* the requests of a call of put.
ConvInit ==
    /\ RIdle
    /\ SIdle
    /\ ScopesIdle
    /\ WrapsIdle
    /\ RecorderIdle
    /\ op = [name |-> "put"]
    /\ lim = [calls |-> MaxCalls, puts |-> 1, inflight |-> 1, faults |-> 0,
              threads |-> ConvThreads, namespaces |-> {""}, parents |-> {NoId},
              forks |-> {NoFork}, ticks |-> {1}, readFaults |-> {},
              filters |-> {{}}, befores |-> {NoId}, limits |-> {NoLimit}]

ConvNext ==
    \/ \E inst \in Savers, t \in lim.threads : ConvIdCall(inst, t)
    \/ \E t \in lim.threads, ns \in lim.namespaces, k \in CheckpointIds,
          parent \in lim.parents, fork \in lim.forks : PutCall(t, ns, k, parent, fork)
    \/ \E i \in DOMAIN puts : PutAppend(i)
    \/ \E i \in DOMAIN puts : PutCreate(i)
    \/ \E i \in DOMAIN puts : PutCreateInsert(i)

ConvSpec == ConvInit /\ [][ConvNext]_vars

(***************************************************************************)
(* Properties of the checkpoint saver.                                     *)
(***************************************************************************)
\* The entries that call i of put has appended.
EntriesBy(i) == {k \in DOMAIN entries : entries[k].by = i}

\* C1 (checked under SaverSpec): get_tuple called with the pointer a call of put
\* has returned (thread, namespace and the checkpoint's id, no other call having
\* used the same pointer) returns a checkpoint tuple whose checkpoint and
\* metadata are the ones that call wrote.
C1_GetReturnsWhatPutWrote ==
    [][op'.name = "get_tuple"
       => \A i \in DOMAIN puts :
            (/\ puts[i].pc = "returned"
             /\ op'.thread = puts[i].thread /\ op'.ns = puts[i].ns
             /\ op'.id = puts[i].ck.id
             /\ \A j \in DOMAIN puts \ {i} :
                    ~(puts[j].thread = puts[i].thread /\ puts[j].ns = puts[i].ns
                      /\ puts[j].ck.id = puts[i].ck.id))
            => /\ op'.result.kind = "tuple"
               /\ op'.result.tuple.checkpoint = puts[i].ck
               /\ op'.result.tuple.metadata = puts[i].md]_vars

\* C2 (checked under RaceSpec): of the calls of put that run concurrently for a
\* thread whose conversation does not exist yet, none raises unless the service
\* failed upstream on one of its requests (a duplicate-key conflict is no such
\* failure), each one that has returned has its checkpoint in an entry of the
\* conversation, and each one still running has a next step.
C2_RacingPutsSucceed ==
    \A i \in DOMAIN puts :
        /\ puts[i].pc = "raised" => puts[i].faulted
        /\ puts[i].pc = "returned"
           => \E k \in EntriesBy(i) :
                /\ entries[k].conv = ConvId(puts[i].thread)
                /\ entries[k].channel = "memory"
                /\ entries[k].content[1].checkpoint_id = puts[i].ck.id
                /\ DecodeTyped(entries[k].content[1].checkpoint) = puts[i].ck
        /\ puts[i].pc \notin {"returned", "raised"}
           => ENABLED (PutAppend(i) \/ PutForkAppend(i) \/ PutForkInsert(i)
                       \/ PutCreate(i) \/ PutCreateInsert(i))

\* Two calls have both found the conversation absent and both sent
\* create-conversation, no request failed upstream, and both have returned.
C2_Witness ==
    /\ Len(puts) = 2
    /\ \A i \in DOMAIN puts :
        /\ puts[i].pc = "returned" /\ ~puts[i].faulted
        /\ \E k \in DOMAIN puts[i].sent : puts[i].sent[k] = "create"
    /\ Len(entries) = 2

\* C10 (checked under SaverSpec): after N calls of put into a thread and
\* namespace have returned (none running), list without filter, before and
\* limit, answered by the service, returns N checkpoints, the one written last
\* first.
C10_ListNewestFirst ==
    [][(/\ op'.name = "list" /\ op'.status = 200
        /\ op'.filter = {} /\ op'.before = NoId /\ op'.limit = NoLimit
        /\ InFlight = {})
       => LET done == ReturnedPuts(op'.thread, op'.ns)
              items == op'.result.items
          IN /\ Len(items) = Len(done)
             /\ \A k \in 1..Len(items) :
                    items[k].checkpoint = done[Len(done) + 1 - k].ck]_vars

(***************************************************************************)
(* The entry ordering: createdAt, then the id; the service assigns ids in  *)
(* order of creation, so the position in the log stands for the id.        *)
(***************************************************************************)
EntryNewer(m, j) ==
    \/ entries[m].createdAt > entries[j].createdAt
    \/ entries[m].createdAt = entries[j].createdAt /\ m > j

\* The positions in the log of the checkpoint entries of thread and namespace.
CheckpointEntries(thread, ns) ==
    {k \in DOMAIN entries : /\ entries[k].conv = ConvId(thread)
                            /\ entries[k].channel = "memory"
                            /\ InNamespace(entries[k], ns)}

\* C11 (checked under LogSpec): on a log that only put has written, list with
\* a before cursor, answered by the service, returns exactly the checkpoints of the
\* namespace that are newer, by createdAt and then id, than the checkpoint the
\* cursor names: neither that one nor an older one is in the result.
C11_BeforeExcludesNotNewer ==
    [][(/\ op'.name = "list" /\ op'.status = 200 /\ op'.filter = {}
        /\ op'.before # NoId /\ op'.result.kind = "list"
        /\ ForeignEntries = {})
       => LET all == CheckpointEntries(op'.thread, op'.ns)
              cursor == {j \in all : entries[j].content[1].checkpoint_id = op'.before}
              items == op'.result.items
          IN cursor # {}
             => {items[k].checkpoint.v : k \in DOMAIN items}
                = {entries[m].by : m \in {n \in all : \A j \in cursor : EntryNewer(n, j)}}]_vars

\* The checkpoint tuples of items whose checkpoint id is not id.
RemoveId(items, id) == SelectSeq(items, LAMBDA t : t.config.checkpoint_id # id)

\* C12 (checked under LogSpec): list called without a before cursor and then,
\* on the same log and with the same other arguments, with one: the second
\* result is the first one with the checkpoints of the cursor's id removed, in
\* the same order, and nothing else removed.
C12_BeforeRemovesOnlyCursor ==
    [][(/\ op.name = "list" /\ op'.name = "list"
        /\ op.status = 200 /\ op'.status = 200
        /\ op.thread = op'.thread /\ op.ns = op'.ns
        /\ op.filter = op'.filter /\ op.limit = op'.limit
        /\ op.before = NoId /\ op'.before # NoId
        /\ op.result.kind = "list")
       => /\ op'.result.kind = "list"
          /\ op'.result.items = RemoveId(op.result.items, op'.before)]_vars

\* list with a before cursor has returned a checkpoint, and the log holds a
\* checkpoint of the cursor's id in that namespace.
C12_Witness ==
    /\ op.name = "list" /\ op.status = 200 /\ op.before # NoId
    /\ op.result.kind = "list" /\ Len(op.result.items) >= 1
    /\ \E j \in CheckpointEntries(op.thread, op.ns) :
          entries[j].content[1].checkpoint_id = op.before

\* C13 (checked under SaverSpec): get_tuple without a checkpoint id returns
\* nothing when the conversation does not exist or holds no checkpoint of the
\* namespace, and else the checkpoint of the entry that is maximal, by
\* createdAt and then id, among the checkpoint entries of the namespace.
C13_LatestIsMaximal ==
    [][(op'.name = "get_tuple" /\ op'.id = NoId /\ op'.status \in {200, 404})
       => LET all == CheckpointEntries(op'.thread, op'.ns)
          IN IF ConvId(op'.thread) \notin conversations \/ all = {}
             THEN op'.result.kind = "none"
             ELSE /\ op'.result.kind = "tuple"
                  /\ \E m \in all :
                        /\ \A j \in all \ {m} : EntryNewer(m, j)
                        /\ op'.result.tuple.checkpoint = DecodeTyped(entries[m].content[1].checkpoint)
                        /\ op'.result.tuple.config.checkpoint_ns = entries[m].content[1].checkpoint_ns]_vars

\* C14 (checked under LogSpec): list for a thread whose conversation does not
\* exist returns the empty sequence and does not raise, whatever the filter,
\* cursor and limit, and whatever status the service answers with.
C14_ListUnknownThreadEmpty ==
    [][(op'.name = "list" /\ ConvId(op'.thread) \notin conversations)
       => op'.result = [kind |-> "list", items |-> <<>>]]_vars

\* list was answered 404 for a thread of which the service knows nothing.
C14_Witness ==
    /\ op.name = "list" /\ op.status = 404
    /\ ConvId(op.thread) \notin conversations
    /\ op.result = [kind |-> "list", items |-> <<>>]

C16_PutErrorIsFatal ==
    \A i \in DOMAIN puts :
        /\ puts[i].resp.status >= 400
           => \/ puts[i].pc = "raised"
              \/ /\ puts[i].resp.status = 404
                 /\ puts[i].pc \in {"append2", "fork_insert", "create", "create_insert", "append3"}
              \/ /\ puts[i].resp = RespDuplicate
                 /\ puts[i].pc = "append4"
        /\ puts[i].pc = "raised" => puts[i].resp.status >= 400
        /\ puts[i].pc = "returned" => puts[i].resp.status < 400

\* A call has raised on the not-found that the append after create-conversation
\* was answered with.
C16_Witness ==
    \E i \in DOMAIN puts :
        /\ puts[i].pc = "raised"
        /\ puts[i].resp.status = 404
        /\ puts[i].sent = <<"append", "append", "create", "append">>

\* C17 (checked under LogSpec): get_tuple and list raise when the service
\* answers with an error status other than 404.
C17_ReadErrorIsFatal ==
    [][(op'.name \in {"get_tuple", "list"} /\ op'.status >= 400 /\ op'.status # 404)
       => op'.result.kind = "raise"]_vars

\* C18 (checked under LogSpec): list without filter, answered by the service,
\* returns a listing that holds the checkpoint of every entry of the response
\* that belongs to the namespace, is not excluded by the cursor and decodes,
\* even when another such entry does not decode.
C18_ListSurvivesMalformedEntry ==
    [][(op'.name = "list" /\ op'.status = 200 /\ op'.filter = {})
       => LET data == ListResponse(ConvId(op'.thread)).data
          IN /\ op'.result.kind = "list"
             /\ \A k \in DOMAIN data :
                   (/\ ListKeeps(data[k], op'.ns, {}, op'.before)
                    /\ ~CheckpointTupleFails(data[k]))
                   => \E n \in DOMAIN op'.result.items :
                        op'.result.items[n] =
                            CheckpointTupleFromEntry(op'.thread, op'.ns, data[k])]_vars

\* get_tuple (latest and by every id) and list return for thread, in every
\* namespace, the same from the service's answers after the step as from its
\* answers before it.
SameReads(thread) ==
    /\ \A ns \in Namespaces :
         \A before \in {ListResponse(ConvId(thread))}, after \in {ListResponse(ConvId(thread))'} :
            /\ GetTupleLatest(thread, ns, after) = GetTupleLatest(thread, ns, before)
            /\ ListResult(thread, ns, {}, NoId, NoLimit, after)
               = ListResult(thread, ns, {}, NoId, NoLimit, before)
    /\ \A ns \in Namespaces, id \in CheckpointIds \cup {EntryIdName[k] : k \in DOMAIN EntryIdName} :
         \A before \in {GetResponse(ConvId(thread), id)},
            after \in {GetResponse(ConvId(thread), id)'} :
            GetTupleById(thread, ns, after) = GetTupleById(thread, ns, before)

\* C19 (checked under LogSpec): put_writes and delete_thread leave the remote
\* log and the calls of put (the requests sent included) as they are, and
\* get_tuple and list on the thread return after them what they returned before.
C19_NoOpsChangeNothing ==
    [][\A t \in lim.threads :
          (op'.name \in {"put_writes", "delete_thread"} /\ op'.thread = t)
          => /\ conversations' = conversations
             /\ entries' = entries
             /\ now' = now
             /\ puts' = puts
             /\ SameReads(t)]_vars

\* delete_thread was called for a thread whose log holds a checkpoint.
C19_Witness ==
    /\ op.name = "delete_thread"
    /\ \E ns \in Namespaces : CheckpointEntries(op.thread, ns) # {}
    /\ \E resp \in {ListResponse(ConvId(op.thread))} :
          GetTupleLatest(op.thread, "", resp).kind = "tuple"

\* C20 (checked under SaverSpec): no two checkpoint entries of one thread and
\* namespace carry the same checkpoint id.
C20_OneEntryPerCheckpointId ==
    \A t \in lim.threads, ns \in Namespaces :
        \A j, k \in CheckpointEntries(t, ns) :
            entries[j].content[1].checkpoint_id = entries[k].content[1].checkpoint_id
            => j = k

\* C24 (checked under RaceSpec): a call of put never has more than one entry
\* in the log; one that has returned has exactly one, on the memory channel of
\* its conversation and carrying its checkpoint; one that has raised has none.
C24_PutAppendsExactlyOnce ==
    \A i \in DOMAIN puts :
        /\ Cardinality(EntriesBy(i)) <= 1
        /\ puts[i].pc = "returned"
           => /\ Cardinality(EntriesBy(i)) = 1
              /\ \A k \in EntriesBy(i) :
                    /\ entries[k].conv = ConvId(puts[i].thread)
                    /\ entries[k].channel = "memory"
                    /\ DecodeTyped(entries[k].content[1].checkpoint) = puts[i].ck
        /\ puts[i].pc = "raised" => EntriesBy(i) = {}

\* One call has returned after the duplicate-key conflict and its last append,
\* the other has raised after an upstream failure; the log holds one entry.
C24_Witness ==
    /\ \E i \in DOMAIN puts :
          /\ puts[i].pc = "returned"
          /\ puts[i].sent = <<"append", "fork_append", "append">>
          /\ Cardinality(EntriesBy(i)) = 1
    /\ \E j \in DOMAIN puts : puts[j].pc = "raised" /\ Len(puts[j].sent) >= 3
    /\ Len(entries) = 1

\* The number of requests of the given kinds in a sequence of requests sent.
CountSent(sent, kinds) == Cardinality({k \in DOMAIN sent : sent[k] \in kinds})

\* C25 (checked under RaceSpec): a call of put sends at most one
\* create-conversation and at most four appends; it sends create-conversation
\* only while holding a not-found answer to an append; after create-conversation,
\* whatever the answer, it sends the original append (no fork markers); after a
\* duplicate-key answer it sends one more append, whose answer ends the call;
\* and a call that has not ended always has a next step.
C25_BoundedWriteProtocol ==
    [][\A i \in DOMAIN puts :
          /\ CountSent(puts'[i].sent, {"create"}) <= 1
          /\ CountSent(puts'[i].sent, {"append", "fork_append"}) <= 4
          /\ (puts'[i].sent # puts[i].sent /\ puts[i].pc = "create")
             => /\ puts[i].resp.status = 404
                /\ CountSent(puts[i].sent, {"append", "fork_append"}) >= 1
                /\ puts'[i].sent = Append(puts[i].sent, "create")
                /\ puts'[i].pc \in {"create_insert", "append3"}
          /\ (puts[i].pc = "create_insert" /\ puts'[i] # puts[i]) => puts'[i].pc = "append3"
          /\ (puts[i].pc = "append3" /\ puts'[i] # puts[i])
             => puts'[i].sent = Append(puts[i].sent, "append")
          /\ (puts'[i] # puts[i] /\ puts'[i].resp = RespDuplicate /\ puts[i].pc # "append4")
             => puts'[i].pc = "append4"
          /\ (puts[i].pc = "append4" /\ puts'[i] # puts[i])
             => /\ puts'[i].sent = Append(puts[i].sent, "append")
                /\ puts'[i].pc \in {"returned", "raised"}
          /\ puts[i].pc \notin {"returned", "raised"}
             => ENABLED (PutAppend(i) \/ PutForkAppend(i) \/ PutForkInsert(i)
                         \/ PutCreate(i) \/ PutCreateInsert(i))]_vars

\* One call has gone through create-conversation, refused as a duplicate, and
\* the original append; the other through the duplicate-key answer to its fork
\* append and the last append; both have returned.
C25_Witness ==
    /\ \E i \in DOMAIN puts :
          puts[i].pc = "returned" /\ puts[i].sent = <<"append", "append", "create", "append">>
    /\ \E j \in DOMAIN puts :
          puts[j].pc = "returned" /\ puts[j].sent = <<"append", "fork_append", "append">>

\* C26 (checked under RaceSpec): the second request of a call of put is the
\* append with both fork markers when the call is part of a fork, and
\* create-conversation when it is not.
C26_ForkRetryOnlyForForks ==
    \A i \in DOMAIN puts :
        Len(puts[i].sent) >= 2
        => IF puts[i].fork.conv # NoId /\ puts[i].fork.entry # NoId
           THEN puts[i].sent[2] = "fork_append"
           ELSE puts[i].sent[2] = "create"

\* The checkpoint tuples a read has returned.
TuplesOf(result) ==
    CASE result.kind = "tuple" -> {result.tuple}
      [] result.kind = "list" -> {result.items[k] : k \in DOMAIN result.items}
      [] OTHER -> {}

\* The calls of put for the thread and namespace of call i that came before it.
EarlierPuts(i) ==
    {j \in 1..(i - 1) : puts[j].thread = puts[i].thread /\ puts[j].ns = puts[i].ns}

\* C27 (checked under ChainSpec): in a chain of puts, every checkpoint that
\* get_tuple (latest or by entry id) or list returns has no parent pointer
\* when it was the first put of its thread and namespace, and else a parent
\* pointer with the same thread and namespace and the checkpoint id of the put
\* before it in that thread and namespace.
C27_AncestryFromLog ==
    [][op'.name \in {"get_tuple", "list"}
       => \A t \in TuplesOf(op'.result) :
            LET i == t.checkpoint.v
            IN IF EarlierPuts(i) = {}
               THEN t.parent = <<>>
               ELSE t.parent = <<[thread_id |-> op'.thread, checkpoint_ns |-> op'.ns,
                                  checkpoint_id |->
                                      puts[CHOOSE j \in EarlierPuts(i) :
                                              \A n \in EarlierPuts(i) : n <= j].ck.id]>>]_vars

\* list has returned a root and its child, the child first.
C27_Witness ==
    /\ op.name = "list" /\ op.result.kind = "list" /\ Len(op.result.items) = 2
    /\ op.result.items[2].parent = <<>>
    /\ op.result.items[1].parent # <<>>
    /\ op.result.items[1].parent[1].checkpoint_id = op.result.items[2].config.checkpoint_id
    /\ op.result.items[1].config.checkpoint_id # op.result.items[2].config.checkpoint_id

\* The entry of the log a checkpoint tuple was decoded from.
EntryOfTuple(t) == CHOOSE m \in DOMAIN entries : entries[m].by = t.checkpoint.v

\* C28 (checked under SaverSpec): when the memory channel of the conversation
\* fits one page and holds one entry per checkpoint id, list without filter, cursor and limit returns the checkpoints
\* of the namespace strictly newest first by createdAt and then id, and
\* get_tuple without an id returns the first of that order.
C28_OrderIsTotal ==
    [][(/\ op'.name \in {"get_tuple", "list"} /\ op'.status = 200
        /\ Len(ChannelEntries(ConvId(op'.thread), "memory")) <= PageSize
        /\ \A a, b \in CheckpointEntries(op'.thread, op'.ns) :
              a # b => entries[a].content[1].checkpoint_id # entries[b].content[1].checkpoint_id
        /\ op'.name = "list" => op'.filter = {} /\ op'.before = NoId /\ op'.limit = NoLimit
        /\ op'.name = "get_tuple" => op'.id = NoId)
       => IF op'.name = "list"
          THEN \A k \in 1..(Len(op'.result.items) - 1) :
                  EntryNewer(EntryOfTuple(op'.result.items[k]),
                             EntryOfTuple(op'.result.items[k + 1]))
          ELSE \A t \in TuplesOf(op'.result) :
                  \A j \in CheckpointEntries(op'.thread, op'.ns) \ {EntryOfTuple(t)} :
                      EntryNewer(EntryOfTuple(t), j)]_vars

\* C29 (checked under SaverSpec): list without filter, cursor and limit returns
\* as many checkpoints as the conversation holds for the namespace, and
\* get_tuple without an id returns a checkpoint whose entry has the greatest
\* createdAt of them, however many entries the memory channel holds.
C29_ReadsSeeAllPages ==
    [][(/\ op'.name \in {"get_tuple", "list"} /\ op'.status = 200
        /\ op'.name = "list" => op'.filter = {} /\ op'.before = NoId /\ op'.limit = NoLimit
        /\ op'.name = "get_tuple" => op'.id = NoId)
       => LET all == CheckpointEntries(op'.thread, op'.ns)
          IN IF op'.name = "list"
             THEN Len(op'.result.items) = Cardinality(all)
             ELSE all # {}
                  => /\ op'.result.kind = "tuple"
                     /\ \A j \in all :
                           entries[EntryOfTuple(op'.result.tuple)].createdAt
                           >= entries[j].createdAt]_vars

\* C36 (checked under IsoSpec): every checkpoint that get_tuple or list returns
\* for a thread id was written by a put under that same thread id.
C36_ThreadsIsolated ==
    [][op'.name \in {"get_tuple", "list"}
       => \A t \in TuplesOf(op'.result) : puts[t.checkpoint.v].thread = op'.thread]_vars

\* C37 (checked under AgreeSpec, and under SaverSpec for logs where every
\* entry decodes): for every thread and namespace,
\* whenever the listing of the memory channel succeeds: when get_tuple without
\* a checkpoint id returns no checkpoint, list without filter, cursor and limit
\* returns the empty sequence; when get_tuple returns a checkpoint, list
\* returns a sequence that starts with it; and when list returns, get_tuple
\* returns too.
C37_LatestAgreesWithList ==
    \A t \in lim.threads, ns \in lim.namespaces :
        \A resp \in {ListResponse(ConvId(t))} :
            (resp.status >= 200 /\ resp.status < 300)
            => \A g \in {GetTupleLatest(t, ns, resp)} :
                 \A l \in {ListResult(t, ns, {}, NoId, NoLimit, resp)} :
                    /\ g.kind = "none" => l.kind = "list" /\ l.items = <<>>
                    /\ g.kind = "tuple"
                       => l.kind = "list" /\ l.items # <<>> /\ g.tuple = l.items[1]
                    /\ l.kind = "list" => g.kind \in {"none", "tuple"}

\* list has returned two checkpoints of entries with the same createdAt, and
\* get_tuple on the same log returns the first of them.
C37_Witness ==
    /\ op.name = "list" /\ op.status = 200 /\ op.result.kind = "list"
    /\ Len(op.result.items) = 2
    /\ entries[EntryOfTuple(op.result.items[1])].createdAt
       = entries[EntryOfTuple(op.result.items[2])].createdAt
    /\ op.result.items[1].config.checkpoint_id # op.result.items[2].config.checkpoint_id
    /\ GetTupleLatest(op.thread, op.ns, ListResponse(ConvId(op.thread))).tuple
       = op.result.items[1]

(***************************************************************************)
(* request_context: memory_service_scope and the process-wide stacks of    *)
(* authorizations per conversation id.  Each scope runs in a context of    *)
(* its own (a request handled by its own thread or task), so the scopes on *)
(* one conversation id may be left in any order; the context variables of  *)
(* a scope are fields of its record.                                       *)
(***************************************************************************)
MaxScopes == 3      \* memory_service_scope blocks entered (ScopeSpec)

NoAuth == ""        \* no Authorization header: None or the empty string
Auths == {"A", "B"}

\* The stack of a conversation id after a scope that pushed exits: stack.pop()
\* when the stack is not empty, whichever scope pushed its top.
PopOnExit(stack) == IF stack = <<>> THEN stack ELSE SubSeq(stack, 1, Len(stack) - 1)

\* Entering `with memory_service_scope(c)` in a context whose request
\* authorization is auth.
ScopeEnter(c, auth) ==
    /\ Len(scopes) < lim.scopes
    /\ scopes' = Append(scopes, [conv |-> c, auth |-> auth, pushed |-> auth # NoAuth,
                                 pc |-> "active", conversation_id |-> c])
    /\ authorizations' = IF auth # NoAuth
                         THEN [authorizations EXCEPT ![c] = Append(authorizations[c], auth)]
                         ELSE authorizations
    /\ op' = [name |-> "scope"]
    /\ UNCHANGED <<lim, wraps, recorder, callers, svars, rvars>>

\* Leaving the block of scope i: the finally clause.
ScopeExit(i) ==
    /\ i \in DOMAIN scopes
    /\ scopes[i].pc = "active"
    /\ scopes' = [scopes EXCEPT ![i].pc = "exited", ![i].conversation_id = NoId]
    /\ authorizations' = IF scopes[i].pushed
                         THEN [authorizations EXCEPT
                                  ![scopes[i].conv] = PopOnExit(authorizations[scopes[i].conv])]
                         ELSE authorizations
    /\ op' = [name |-> "scope"]
    /\ UNCHANGED <<lim, wraps, recorder, callers, svars, rvars>>

\* get_conversation_authorization(c): the top of the stack, or None.
ConversationAuthorization(c) ==
    IF authorizations[c] = <<>> THEN NoAuth ELSE authorizations[c][Len(authorizations[c])]

GetConversationAuthorization(c) ==
    /\ op' = [name |-> "get_conversation_authorization", conv |-> c,
              result |-> ConversationAuthorization(c)]
    /\ UNCHANGED <<lim, xvars, svars, rvars>>

ScopeInit ==
    /\ RIdle
    /\ SIdle
    /\ ScopesIdle
    /\ WrapsIdle
    /\ RecorderIdle
    /\ op = [name |-> "scope"]
    /\ lim = [scopes |-> MaxScopes]

ScopeNext ==
    \/ \E c \in ConvIds, auth \in Auths \cup {NoAuth} : ScopeEnter(c, auth)
    \/ \E i \in DOMAIN scopes : ScopeExit(i)
    \/ \E c \in ConvIds : GetConversationAuthorization(c)

ScopeSpec == ScopeInit /\ [][ScopeNext]_vars

\* C38 (checked under ScopeSpec): when get_conversation_authorization(c)
\* returns an authorization, a scope on c entered with that authorization is
\* still active; and it returns one whenever a scope on c entered with an
\* authorization is still active.
C38_AuthorizationOfActiveScope ==
    [][op'.name = "get_conversation_authorization"
       => LET active == {i \in DOMAIN scopes : /\ scopes[i].pc = "active"
                                               /\ scopes[i].conv = op'.conv
                                               /\ scopes[i].pushed}
          IN /\ op'.result # NoAuth => \E i \in active : scopes[i].auth = op'.result
             /\ active # {} => op'.result # NoAuth]_vars

(***************************************************************************)
(* GrpcResponseRecorder: record() and complete() called from any thread,   *)
(* and the sender thread that drains the queue.  recorder.queue is every   *)
(* item ever put, in the order of the puts; the sender has taken the first *)
(* recorder.taken of them.  A step is one operation on the event or on the *)
(* queue: between two of them another thread may run.                      *)
(***************************************************************************)
MaxCallers == 3     \* calls of record() and complete() (RecorderSpec)
Contents == {"", "a", "b"}

ChunkItem(content) == [kind |-> "chunk", content |-> content]
CompleteItem == [kind |-> "complete", content |-> ""]
Sentinel == [kind |-> "end", content |-> ""]

\* record(content), its two early returns: the call goes on to queue.put when
\* _completed is not set and the content is not empty.
RecordAccepts(content) == ~recorder.completed /\ content # ""

\* record(content) up to its queue.put.
Record(content) ==
    /\ Len(callers) < lim.callers
    /\ callers' = Append(callers, [call |-> "record", content |-> content,
                                   pc |-> IF RecordAccepts(content) THEN "put" ELSE "done",
                                   late |-> recorder.completed])
    /\ op' = [name |-> "recorder"]
    /\ UNCHANGED <<recorder, lim, authorizations, scopes, wraps, svars, rvars>>

\* record(content): self._queue.put(RecordRequest(content=content)).
RecordPut(i) ==
    /\ i \in DOMAIN callers
    /\ callers[i].call = "record" /\ callers[i].pc = "put"
    /\ recorder' = [recorder EXCEPT !.queue = Append(@, ChunkItem(callers[i].content))]
    /\ callers' = [callers EXCEPT ![i].pc = "done"]
    /\ op' = [name |-> "recorder"]
    /\ UNCHANGED <<lim, authorizations, scopes, wraps, svars, rvars>>

\* complete() up to its test of the event.
Complete ==
    /\ Len(callers) < lim.callers
    /\ callers' = Append(callers, [call |-> "complete", content |-> "",
                                   pc |-> IF recorder.completed THEN "done" ELSE "set",
                                   late |-> recorder.completed])
    /\ op' = [name |-> "recorder"]
    /\ UNCHANGED <<recorder, lim, authorizations, scopes, wraps, svars, rvars>>

\* complete(), one operation after the test: _completed.set(), the put of
\* the complete marker, the put of None, and then the wait for the sender
\* thread (which returns when _finished is set or on its timeout) with the
\* close of the channel.
CompleteStep(i) ==
    /\ i \in DOMAIN callers
    /\ callers[i].call = "complete" /\ callers[i].pc \in {"set", "marker", "end", "wait"}
    /\ recorder' =
          CASE callers[i].pc = "set" -> [recorder EXCEPT !.completed = TRUE]
            [] callers[i].pc = "marker" -> [recorder EXCEPT !.queue = Append(@, CompleteItem)]
            [] callers[i].pc = "end" -> [recorder EXCEPT !.queue = Append(@, Sentinel)]
            [] OTHER -> [recorder EXCEPT !.closed = TRUE]
    /\ callers' = [callers EXCEPT ![i].pc =
                      CASE callers[i].pc = "set" -> "marker"
                        [] callers[i].pc = "marker" -> "end"
                        [] callers[i].pc = "end" -> "wait"
                        [] OTHER -> "done"]
    /\ op' = [name |-> "recorder"]
    /\ UNCHANGED <<lim, authorizations, scopes, wraps, svars, rvars>>

\* _iter_requests in the sender thread: takes the next item of the queue and
\* sends it, or ends the stream when the item is None; _run then sets
\* _finished.
IterRequests ==
    /\ ~recorder.finished
    /\ recorder.taken < Len(recorder.queue)
    /\ recorder' = [recorder EXCEPT
                       !.taken = @ + 1,
                       !.finished = recorder.queue[recorder.taken + 1] = Sentinel]
    /\ op' = [name |-> "recorder"]
    /\ UNCHANGED <<callers, lim, authorizations, scopes, wraps, svars, rvars>>

RecorderInit ==
    /\ RIdle
    /\ SIdle
    /\ ScopesIdle
    /\ WrapsIdle
    /\ RecorderIdle
    /\ op = [name |-> "recorder"]
    /\ lim = [callers |-> MaxCallers]

RecorderNext ==
    \/ \E content \in Contents : Record(content)
    \/ \E i \in DOMAIN callers : RecordPut(i)
    \/ Complete
    \/ \E i \in DOMAIN callers : CompleteStep(i)
    \/ IterRequests

RecorderSpec == RecorderInit /\ [][RecorderNext]_vars

\* The items of the queue that are not chunks.
IsMarker(item) == item.kind # "chunk"

\* C40 (checked under RecorderSpec): the items put on the queue are chunks,
\* then at most one complete marker, then at most one end-of-stream sentinel,
\* with nothing after them; every chunk in the queue is the non-empty content
\* of a record() call; once a complete() call that found _completed clear
\* has returned, the queue holds exactly one complete marker and one sentinel;
\* and a call of record()
\* or complete() that began after _completed was set has put nothing.
C40_QueueIsChunksThenOneEnd ==
    /\ \E n \in 0..Len(recorder.queue) :
          /\ \A k \in 1..n : recorder.queue[k].kind = "chunk"
          /\ SubSeq(recorder.queue, n + 1, Len(recorder.queue))
             \in {<<>>, <<CompleteItem>>, <<CompleteItem, Sentinel>>}
    /\ \A k \in DOMAIN recorder.queue :
          recorder.queue[k].kind = "chunk"
          => /\ recorder.queue[k].content # ""
             /\ \E i \in DOMAIN callers :
                   callers[i].call = "record" /\ callers[i].content = recorder.queue[k].content
    /\ (\E i \in DOMAIN callers :
            callers[i].call = "complete" /\ callers[i].pc = "done" /\ ~callers[i].late)
       => SelectSeq(recorder.queue, IsMarker) = <<CompleteItem, Sentinel>>
    /\ \A i \in DOMAIN callers : callers[i].late => callers[i].pc = "done"

(***************************************************************************)
(* MemoryServiceHistoryMiddleware.wrap_model_call and awrap_model_call     *)
(* with a ModelRequest.  A call records what it does, in order, in its     *)
(* `events`: append_user and append_ai (_append_history, which logs and    *)
(* swallows its own failures), create_recorder, handler (the handler is    *)
(* invoked), record (the callback passes a token to the recorder),         *)
(* record_final, complete (recorder.complete()), return and raise.         *)
(***************************************************************************)
MaxWraps == 2       \* calls of wrap_model_call / awrap_model_call (WrapSpec)
MaxTokens == 2      \* tokens the model streams to the callback in one call

\* How the handler ends: it returns a response, raises an Exception, or
\* raises a BaseException that is no Exception (asyncio.CancelledError when
\* the task of awrap_model_call is cancelled, KeyboardInterrupt, SystemExit).
Outcomes == {"returns", "raises", "base_exception"}

\* Lines 312-333 (373-395): without a conversation id the handler is called
\* with the request as it is; else the last user text, if any, is appended
\* to the history, the recorder and its callback are created and the handler
\* is called with the callback attached.
WrapModelCall(mode, bound, user) ==
    /\ Len(wraps) < lim.wraps
    /\ wraps' = Append(wraps,
                    [mode |-> mode, bound |-> bound, user |-> user, pc |-> "handler",
                     buffer |-> 0,
                     events |-> IF ~bound THEN <<"handler">>
                                ELSE (IF user THEN <<"append_user">> ELSE <<>>)
                                     \o <<"create_recorder", "handler">>])
    /\ op' = [name |-> "wrap"]
    /\ UNCHANGED <<lim, authorizations, scopes, recorder, callers, svars, rvars>>

\* _RecorderCallback.on_llm_new_token with a non-empty token, while the
\* handler runs: the token is buffered and passed to recorder.record.
OnLlmNewToken(i) ==
    /\ i \in DOMAIN wraps
    /\ wraps[i].pc = "handler" /\ wraps[i].bound
    /\ wraps[i].buffer < lim.tokens
    /\ wraps' = [wraps EXCEPT ![i].buffer = @ + 1, ![i].events = Append(@, "record")]
    /\ op' = [name |-> "wrap"]
    /\ UNCHANGED <<lim, authorizations, scopes, recorder, callers, svars, rvars>>

\* The events of a call after its handler has returned a response whose
\* result holds an AI text (ai) or none: lines 341-346 (403-408).
AfterReturn(w, ai) ==
    (IF ai \/ w.buffer > 0
     THEN (IF w.buffer = 0 THEN <<"record_final">> ELSE <<>>) \o <<"append_ai">>
     ELSE <<>>)
    \o <<"complete", "return">>

\* The events of a call after its handler has raised: the except clause of
\* lines 334-339 (396-401) runs for an Exception only.
AfterRaise(w, outcome) ==
    IF outcome = "raises"
    THEN (IF w.buffer > 0 THEN <<"append_ai">> ELSE <<>>) \o <<"complete", "raise">>
    ELSE <<"raise">>

\* The handler ends and the call runs to its end.
HandlerEnds(i, outcome, ai) ==
    /\ i \in DOMAIN wraps
    /\ wraps[i].pc = "handler"
    /\ wraps' = [wraps EXCEPT
                    ![i].pc = IF outcome = "returns" THEN "returned" ELSE "raised",
                    ![i].events =
                        IF ~wraps[i].bound
                        THEN Append(@, IF outcome = "returns" THEN "return" ELSE "raise")
                        ELSE IF outcome = "returns" THEN @ \o AfterReturn(wraps[i], ai)
                        ELSE @ \o AfterRaise(wraps[i], outcome)]
    /\ op' = [name |-> "wrap", outcome |-> outcome]
    /\ UNCHANGED <<lim, authorizations, scopes, recorder, callers, svars, rvars>>

WrapInit ==
    /\ RIdle
    /\ SIdle
    /\ ScopesIdle
    /\ WrapsIdle
    /\ RecorderIdle
    /\ op = [name |-> "wrap"]
    /\ lim = [wraps |-> MaxWraps, tokens |-> MaxTokens]

WrapNext ==
    \/ \E mode \in {"sync", "async"}, bound \in BOOLEAN, user \in BOOLEAN :
          WrapModelCall(mode, bound, user)
    \/ \E i \in DOMAIN wraps : OnLlmNewToken(i)
    \/ \E i \in DOMAIN wraps, outcome \in Outcomes, ai \in BOOLEAN :
          HandlerEnds(i, outcome, ai)

WrapSpec == WrapInit /\ [][WrapNext]_vars

\* The positions of event e in the events of a call.
EventAt(w, e) == {k \in DOMAIN w.events : w.events[k] = e}

\* C39 (checked under WrapSpec): for every call with a bound conversation id:
\* the recorder is never completed twice; when the user text exists its
\* append comes before the handler is invoked; a call that has ended, by
\* return or by an exception of the handler, has completed its recorder
\* exactly once, as its last act before the return or the raise and after
\* every append of an AI entry; and a call whose handler raised after
\* streaming tokens has appended the buffered text as an AI entry.
C39_RecorderCompletedOnce ==
    \A i \in DOMAIN wraps :
        LET w == wraps[i]
        IN w.bound
           => /\ Cardinality(EventAt(w, "complete")) <= 1
              /\ w.user => \E k \in EventAt(w, "append_user") :
                              \A h \in EventAt(w, "handler") : k < h
              /\ w.pc \in {"returned", "raised"}
                 => /\ Cardinality(EventAt(w, "complete")) = 1
                    /\ w.events[Len(w.events) - 1] = "complete"
                    /\ \A a \in EventAt(w, "append_ai") :
                          \A k \in EventAt(w, "complete") : a < k
              /\ (w.pc = "raised" /\ w.buffer > 0) => EventAt(w, "append_ai") # {}

====
